---- MODULE Spec2Model ----
(***************************************************************************)
(* Model of the ZVT driver: the dialog state machines of                   *)
(* zvt/src/sequences.rs on a framed transport, the reconnecting wrapper of  *)
(* zvt_feig_terminal/src/stream.rs and the transaction map of              *)
(* zvt_feig_terminal/src/feig.rs.                                           *)
(***************************************************************************)
EXTENDS Integers, Sequences, FiniteSets, TLC

\* Frames the terminal sends within one stream before it falls silent.
MaxFrames == 3

\* The longest retry stream handed to into_stream_with_retry.
MaxTicks == 2

\* The largest configured transactions_max_num.
MaxTransactions == 2

\* Items a controller operation sees from one dialog.
MaxItems == 2

\* Pending pre-authorisations the terminal reports to one cancel_pending.
MaxPending == 1

\* The most bytes the source of a PacketWriter delivers before it ends.
MaxSource == 7

\* The largest length handed to the serialize of a length codec.
MaxLength == 65536

\* The longest payload framed with a codec that does not encode the length.
MaxPayload == 4

\* The most tagged elements in the input of a derived decode.
MaxFields == 4

VARIABLES
    dialog,   \* the Sequence impl the current stream was created from
    pc,       \* position of the try_stream! generator
    polled,   \* a stream.next() call is outstanding
    packet,   \* the parsed response waiting for its Ack
    item,     \* what the last stream.next() returned
    wire,     \* the transport operations the stream has completed, in order
    events,   \* the items the stream has yielded, in order
    seq,      \* Self of into_stream_with_retry: the caller's sequence
    inner,    \* TcpStream::inner, "none" or "some"
    rpc,      \* position of the stream! generator of the wrapper
    retry,    \* ticks the retry stream has left
    n_ticks,  \* ticks the retry stream was created with
    is_err,   \* the wrapper's is_err flag
    wpolled,  \* a next() call on the wrapper's output is outstanding
    witem,    \* what the last next() on the wrapper's output returned
    out,      \* the kind of each item the wrapper has yielded, in order
    hist,     \* one record per attempt of the wrapper
    transactions,          \* Feig::transactions, a set of map entries
    transactions_max_num,  \* Feig::transactions_max_num
    terminal_id,           \* config.terminal_id, as ASCII
    eod_due,  \* end_of_day_last_instant.elapsed() >= end_of_day_max_interval
    successfully_configured,  \* Feig::successfully_configured
    result,   \* what the last controller operation returned
    calls,    \* the requests the last controller operation sent, in order
    seen,     \* the items the last operation got from its dialogs, in order
    eod,      \* the outcome of the end_of_day the last operation called, if any
    before,   \* the controller's fields when the last operation was called
    arg,      \* the input of the function or stream under analysis
    ret       \* what the function has returned

svars == <<dialog, pc, polled, packet, item, wire, events>>

wvars == <<seq, inner, rpc, retry, n_ticks, is_err, wpolled, witem, out, hist>>

fvars == <<transactions, transactions_max_num, terminal_id, eod_due,
           successfully_configured, result, calls, seen, eod, before>>

pvars == <<arg, ret>>

vars == <<svars, wvars, fvars, pvars>>

-----------------------------------------------------------------------------
(* Frames and the command registry                                         *)

\* A frame as read_packet returns it: the control field and a payload that
\* the addressed packet type's decoder accepts ("ok") or rejects ("bad").
Frame(class, instr, body) == [class |-> class, instr |-> instr, body |-> body]

\* packets::Ack, class 0x80 instr 0x00, no payload.
AckFrame == Frame(128, 0, "ok")

\* The control fields the terminal may put on the wire: Ack 80 00, Nack 84 9C,
\* SetTimeAndDate 04 01, RequestForData 04 0C, StatusInformation 04 0F,
\* IntermediateStatusInformation 04 FF, CompletionData 06 0F, Abort 06 1E,
\* PrintLine 06 D1, PrintTextBlock 06 D3.
ControlFields ==
    { <<128, 0>>, <<132, 156>>, <<4, 1>>, <<4, 12>>, <<4, 15>>, <<4, 255>>,
      <<6, 15>>, <<6, 30>>, <<6, 209>>, <<6, 211>> }

Frames == { Frame(c[1], c[2], b) : c \in ControlFields, b \in {"ok", "bad"} }

\* One arm of a derived ZvtEnum: the wrapped packet's CLASS and INSTR, the
\* variant name and whether the wrapped struct has any field to decode.
Variant(class, instr, name, fields) ==
    [class |-> class, instr |-> instr, name |-> name, fields |-> fields]

\* A registry in which a Nack (84 xx) also counts as the acknowledgement.
AckEnum_AcceptsNack ==
    << Variant(128, 0, "Ack", FALSE), Variant(132, 156, "Nack", FALSE) >>

\* enum Ack { Ack(packets::Ack) }
AckEnum == << Variant(128, 0, "Ack", FALSE) >>

Dialogs ==
    { "Registration", "ReadCard", "Initialization", "SetTerminalId",
      "ResetTerminal", "Diagnosis", "EndOfDay", "Reservation",
      "PartialReversal", "PreAuthReversal", "PrintSystemConfiguration",
      "SelectLanguage", "StatusEnquiry", "GetSystemInfo" }

\* Sequence::Input: the control field of the request packet.
Input(d) ==
    CASE d = "Registration" -> Frame(6, 0, "ok")
      [] d = "ReadCard" -> Frame(6, 192, "ok")
      [] d = "Initialization" -> Frame(6, 147, "ok")
      [] d = "SetTerminalId" -> Frame(6, 27, "ok")
      [] d = "ResetTerminal" -> Frame(6, 24, "ok")
      [] d = "Diagnosis" -> Frame(6, 112, "ok")
      [] d = "EndOfDay" -> Frame(6, 80, "ok")
      [] d = "Reservation" -> Frame(6, 34, "ok")
      [] d = "PartialReversal" -> Frame(6, 35, "ok")
      [] d = "PreAuthReversal" -> Frame(6, 37, "ok")
      [] d = "PrintSystemConfiguration" -> Frame(6, 26, "ok")
      [] d = "SelectLanguage" -> Frame(8, 48, "ok")
      [] d = "StatusEnquiry" -> Frame(5, 1, "ok")
      [] d = "GetSystemInfo" -> Frame(15, 161, "ok")

IntermediateStatusInformation == Variant(4, 255, "IntermediateStatusInformation", TRUE)
StatusInformation == Variant(4, 15, "StatusInformation", TRUE)
SetTimeAndDate == Variant(4, 1, "SetTimeAndDate", TRUE)
PrintLine == Variant(6, 209, "PrintLine", TRUE)
PrintTextBlock == Variant(6, 211, "PrintTextBlock", TRUE)
CompletionData == Variant(6, 15, "CompletionData", TRUE)
Abort == Variant(6, 30, "Abort", TRUE)
PartialReversalAbort == Variant(6, 30, "PartialReversalAbort", TRUE)
EnhancedSystemInformation ==
    Variant(6, 15, "CVendFunctionsEnhancedSystemInformationCompletion", TRUE)

\* Sequence::Output: the arms of the response enum, in declaration order.
AuthorizationResponse ==
    << IntermediateStatusInformation, StatusInformation, PrintLine,
       PrintTextBlock, CompletionData, Abort >>

PartialReversalResponse ==
    << IntermediateStatusInformation, StatusInformation, PrintLine,
       PrintTextBlock, CompletionData, PartialReversalAbort >>

Output(d) ==
    CASE d \in {"Registration", "ResetTerminal", "SelectLanguage"} ->
            << CompletionData >>
      [] d = "ReadCard" ->
            << IntermediateStatusInformation, StatusInformation, Abort >>
      [] d = "Initialization" ->
            << IntermediateStatusInformation, PrintLine, PrintTextBlock,
               CompletionData, Abort >>
      [] d = "SetTerminalId" -> << CompletionData, Abort >>
      [] d = "Diagnosis" ->
            << IntermediateStatusInformation, SetTimeAndDate, PrintLine,
               PrintTextBlock, CompletionData, Abort >>
      [] d = "EndOfDay" ->
            << IntermediateStatusInformation, StatusInformation, PrintLine,
               PrintTextBlock, CompletionData, Abort >>
      [] d = "Reservation" -> AuthorizationResponse
      [] d \in {"PartialReversal", "PreAuthReversal"} -> PartialReversalResponse
      [] d = "PrintSystemConfiguration" ->
            << PrintLine, PrintTextBlock, CompletionData >>
      [] d = "StatusEnquiry" ->
            << IntermediateStatusInformation, PrintLine, PrintTextBlock,
               CompletionData >>
      [] d = "GetSystemInfo" -> << EnhancedSystemInformation, Abort >>

\* GetSystemInfo and SetTerminalId given a loop that never breaks.
SingleShot_Looping == { "Registration", "ResetTerminal", "SelectLanguage" }

\* The dialogs that keep the trait's default into_stream: one response.
SingleShot ==
    { "Registration", "SetTerminalId", "ResetTerminal", "SelectLanguage",
      "GetSystemInfo" }

\* EndOfDay and Reservation without the Abort arm in the breaking match.
BreakOn_WithoutAbort(d) ==
    CASE d = "ReadCard" -> {"StatusInformation", "Abort"}
      [] d \in {"Initialization", "Diagnosis"} -> {"CompletionData", "Abort"}
      [] d \in {"EndOfDay", "Reservation"} -> {"CompletionData"}
      [] d \in {"PartialReversal", "PreAuthReversal"} ->
            {"CompletionData", "PartialReversalAbort"}
      [] d \in {"PrintSystemConfiguration", "StatusEnquiry"} -> {"CompletionData"}
      [] OTHER -> {}

\* The match arm that yields and breaks in each overriding into_stream.
BreakOn(d) ==
    CASE d = "ReadCard" -> {"StatusInformation", "Abort"}
      [] d \in {"Initialization", "Diagnosis", "EndOfDay", "Reservation"} ->
            {"CompletionData", "Abort"}
      [] d \in {"PartialReversal", "PreAuthReversal"} ->
            {"CompletionData", "PartialReversalAbort"}
      [] d \in {"PrintSystemConfiguration", "StatusEnquiry"} -> {"CompletionData"}
      [] OTHER -> {}

Ok(v) == [kind |-> "ok", val |-> v]
Err(e) == [kind |-> "err", val |-> e]

\* zvt_deserialize of the arm's packet type: the control field was matched by
\* the caller; a struct without fields accepts any payload.
zvt_deserialize(variant, frame) ==
    IF variant.fields /\ frame.body = "bad"
    THEN Err("IncompleteData")
    ELSE Ok(variant.name)

\* The derived zvt_parse: the first arm whose (CLASS, INSTR) equals the first
\* two bytes decodes the frame, no arm gives WrongTag.
zvt_parse(variants, frame) ==
    LET hits == { i \in 1..Len(variants) :
                    /\ variants[i].class = frame.class
                    /\ variants[i].instr = frame.instr }
    IN  IF hits = {}
        THEN Err("WrongTag")
        ELSE zvt_deserialize(
                 variants[CHOOSE i \in hits : \A j \in hits : i <= j], frame)

-----------------------------------------------------------------------------
(* The transport log                                                       *)

Written(frame) == [op |-> "write", frame |-> frame]
Read(frame) == [op |-> "read", frame |-> frame]

Reads(w) == { i \in 1..Len(w) : w[i].op = "read" }

-----------------------------------------------------------------------------
(* The stream: try_stream! of Sequence::into_stream                        *)

NoItem == [kind |-> "none", val |-> ""]
Pending == [kind |-> "pending", val |-> ""]
End == [kind |-> "end", val |-> ""]

\* yield: the item goes to the caller of next(), with the wire position.
Yield(it, w, next_pc) ==
    /\ item' = it
    /\ events' = Append(events, [kind |-> it.kind, val |-> it.val, at |-> Len(w)])
    /\ wire' = w
    /\ pc' = next_pc
    /\ polled' = FALSE

\* The `?` of a mutated stream that goes back to reading after the error.
Throw_Continues(e, w) ==
    Yield(Err(e), w, "ReadPacket") /\ UNCHANGED <<dialog, packet>>

\* `?` inside try_stream!: the error is the stream's last item.
Throw(e, w) == Yield(Err(e), w, "Done") /\ UNCHANGED <<dialog, packet>>

\* A write_packet after which the request is still to be written.
write_packet_Again ==
    /\ polled
    /\ pc = "Created"
    /\ \/ /\ wire' = Append(wire, Written(Input(dialog)))
          /\ Len(wire) < MaxFrames
          /\ pc' = "Created"
          /\ UNCHANGED <<dialog, polled, packet, item, events>>
       \/ Throw("Failed to write", wire)

\* write_packet_with_ack, first half: src.write_packet(input).
write_packet ==
    /\ polled
    /\ pc = "Created"
    /\ \/ /\ wire' = Append(wire, Written(Input(dialog)))
          /\ pc' = "AwaitAck"
          /\ UNCHANGED <<dialog, polled, packet, item, events>>
       \/ Throw("Failed to write", wire)

\* write_packet_with_ack, second half: read_packet and Ack::zvt_parse.
read_ack ==
    /\ polled
    /\ pc = "AwaitAck"
    /\ \/ /\ Cardinality(Reads(wire)) < MaxFrames
          /\ \E f \in Frames :
                LET r == zvt_parse(AckEnum, f)
                    w == Append(wire, Read(f))
                IN  IF r.kind = "ok"
                    THEN /\ wire' = w
                         /\ pc' = "ReadPacket"
                         /\ UNCHANGED <<dialog, polled, packet, item, events>>
                    ELSE Throw(r.val, w)
       \/ Throw("UnexpectedEof", wire)

\* read_packet that keeps the first parsed packet instead of the new one.
read_packet_KeepsFirst ==
    /\ polled
    /\ pc = "ReadPacket"
    /\ \/ /\ Cardinality(Reads(wire)) < MaxFrames
          /\ \E f \in Frames :
                LET r == zvt_parse(Output(dialog), f)
                    w == Append(wire, Read(f))
                IN  IF r.kind = "ok"
                    THEN /\ wire' = w
                         /\ packet' = (IF packet = "" THEN r.val ELSE packet)
                         /\ pc' = "WriteAck"
                         /\ UNCHANGED <<dialog, polled, item, events>>
                    ELSE Throw(r.val, w)
       \/ Throw("UnexpectedEof", wire)

\* src.read_packet() and Self::Output::zvt_parse(&bytes).
read_packet ==
    /\ polled
    /\ pc = "ReadPacket"
    /\ \/ /\ Cardinality(Reads(wire)) < MaxFrames
          /\ \E f \in Frames :
                LET r == zvt_parse(Output(dialog), f)
                    w == Append(wire, Read(f))
                IN  IF r.kind = "ok"
                    THEN /\ wire' = w
                         /\ packet' = r.val
                         /\ pc' = "WriteAck"
                         /\ UNCHANGED <<dialog, polled, item, events>>
                    ELSE Throw(r.val, w)
       \/ Throw("UnexpectedEof", wire)

\* The yield without the Ack write in front of it.
write_ack_NoAck ==
    /\ polled
    /\ pc = "WriteAck"
    /\ Yield(Ok(packet), wire,
             IF dialog \in SingleShot \/ packet \in BreakOn(dialog)
             THEN "Break" ELSE "ReadPacket")
    /\ UNCHANGED <<dialog, packet>>

\* src.write_packet(&packets::Ack {}) and the yield that follows it.
write_ack ==
    /\ polled
    /\ pc = "WriteAck"
    /\ \/ /\ Yield(Ok(packet), Append(wire, Written(AckFrame)),
                   IF dialog \in SingleShot \/ packet \in BreakOn(dialog)
                   THEN "Break" ELSE "ReadPacket")
          /\ UNCHANGED <<dialog, packet>>
       \/ Throw("Failed to write", wire)

\* The generator runs off its end (after break, after the single yield or
\* after an error): next() returns None.
end_of_stream ==
    /\ polled
    /\ pc \in {"Break", "Done"}
    /\ item' = End
    /\ pc' = "Done"
    /\ polled' = FALSE
    /\ UNCHANGED <<dialog, packet, wire, events>>

\* while let Some(response) = stream.next().await
stream_next ==
    /\ ~polled
    /\ item.kind # "end"
    /\ polled' = TRUE
    /\ item' = Pending
    /\ UNCHANGED <<dialog, pc, packet, wire, events>>

\* No controller owns the transport: its fields keep their values, and no
\* function is under analysis.
Unconfigured ==
    /\ arg = << >>
    /\ ret = << >>
    /\ transactions = {}
    /\ transactions_max_num = 0
    /\ terminal_id = << >>
    /\ eod_due = FALSE
    /\ successfully_configured = FALSE
    /\ result = ""
    /\ calls = << >>
    /\ seen = << >>
    /\ eod = {}
    /\ before = ""

\* A stream created on a live transport and drained by its caller, as
\* connect does with Registration; the wrapper is not involved.
Init ==
    /\ dialog \in Dialogs
    /\ pc = "Created"
    /\ polled = FALSE
    /\ packet = ""
    /\ item = NoItem
    /\ wire = << >>
    /\ events = << >>
    /\ seq = dialog
    /\ inner = "some"
    /\ rpc = "Unused"
    /\ retry = 0
    /\ n_ticks = 0
    /\ is_err = FALSE
    /\ wpolled = FALSE
    /\ witem = NoItem
    /\ out = << >>
    /\ hist = << >>
    /\ Unconfigured

Next ==
    \/ stream_next /\ UNCHANGED <<wvars, fvars, pvars>>
    \/ write_packet /\ UNCHANGED <<wvars, fvars, pvars>>
    \/ read_ack /\ UNCHANGED <<wvars, fvars, pvars>>
    \/ read_packet /\ UNCHANGED <<wvars, fvars, pvars>>
    \/ write_ack /\ UNCHANGED <<wvars, fvars, pvars>>
    \/ end_of_stream /\ UNCHANGED <<wvars, fvars, pvars>>

Spec == Init /\ [][Next]_vars

-----------------------------------------------------------------------------
(* The reconnecting wrapper: ResetSequence::into_stream_with_retry         *)

\* config.feig_serial and the device ids a terminal may report, as ASCII.
FeigSerial == <<65, 49>>

DeviceIds == { <<65, 49>>, <<97, 49>>, <<66, 49>> }

\* str::to_lowercase on ASCII.
to_lowercase(s) ==
    [i \in DOMAIN s |-> IF s[i] \in 65..90 THEN s[i] + 32 ELSE s[i]]

\* One turn of `while let Some(()) = retry.next().await`.
\* registered: connect's Registration stream ended without an error;
\* device: packet.device_id.to_lowercase() as connect compared it.
Attempt(had_inner) ==
    [had_inner |-> had_inner, connect |-> "no", started |-> FALSE,
     timed_out |-> FALSE, registered |-> FALSE, device |-> << >>]

ThisAttempt == Len(hist)

\* Sequence::into_stream(&input, transport) followed by the first
\* stream.next(): a fresh generator on the transport.
Start(d) ==
    /\ dialog' = d
    /\ pc' = "Created"
    /\ polled' = TRUE
    /\ packet' = ""
    /\ item' = Pending
    /\ wire' = << >>
    /\ events' = << >>

\* drop(stream): the generator and what it held are gone.
Drop ==
    /\ dialog' = seq
    /\ pc' = "Dropped"
    /\ polled' = FALSE
    /\ packet' = ""
    /\ item' = NoItem
    /\ wire' = << >>
    /\ events' = << >>

\* yield of the wrapper's generator.
WYield(it) ==
    /\ witem' = it
    /\ out' = Append(out, [kind |-> it.kind, attempt |-> ThisAttempt])
    /\ wpolled' = FALSE

\* The sequence is started on src.inner and polled under the timeout.
StartSequence(h) ==
    /\ Start(seq)
    /\ is_err' = FALSE
    /\ rpc' = "Await"
    /\ hist' = [h EXCEPT ![Len(h)].started = TRUE]

\* A connect that hands over a transport although it failed.
ConnectFailed_StoresTransport(e, h) ==
    /\ WYield(Err(e))
    /\ hist' = [h EXCEPT ![Len(h)].connect = "err"]
    /\ rpc' = "Loop"
    /\ Drop
    /\ inner' = "some"
    /\ UNCHANGED <<seq, retry, n_ticks, is_err>>

\* Err(err) => { yield Err(err); continue; }
ConnectFailed(e, h) ==
    /\ WYield(Err(e))
    /\ hist' = [h EXCEPT ![Len(h)].connect = "err"]
    /\ rpc' = "Loop"
    /\ Drop
    /\ UNCHANGED <<seq, inner, retry, n_ticks, is_err>>

\* The caller's stream.next() on the wrapper's output.
caller_next ==
    /\ ~wpolled
    /\ rpc # "Done"
    /\ wpolled' = TRUE
    /\ witem' = Pending
    /\ UNCHANGED <<svars, seq, inner, rpc, retry, n_ticks, is_err, out, hist>>

\* A retry stream that never runs out of ticks.
retry_next_NoTick ==
    /\ wpolled
    /\ rpc = "Loop"
    /\ retry > 0
    /\ retry' = retry
    /\ IF inner = "none"
       THEN /\ hist' = Append(hist, [Attempt(FALSE) EXCEPT !.connect = "called"])
            /\ rpc' = "Connect"
            /\ UNCHANGED <<svars, is_err>>
       ELSE StartSequence(Append(hist, Attempt(TRUE)))
    /\ UNCHANGED <<seq, inner, n_ticks, wpolled, witem, out>>

\* retry.next() gives a tick: connect if src.inner.is_none(), else start the
\* sequence on the live transport.
retry_next ==
    /\ wpolled
    /\ rpc = "Loop"
    /\ retry > 0
    /\ retry' = retry - 1
    /\ IF inner = "none"
       THEN /\ hist' = Append(hist, [Attempt(FALSE) EXCEPT !.connect = "called"])
            /\ rpc' = "Connect"
            /\ UNCHANGED <<svars, is_err>>
       ELSE StartSequence(Append(hist, Attempt(TRUE)))
    /\ UNCHANGED <<seq, inner, n_ticks, wpolled, witem, out>>

\* retry.next() gives None: the while loop and the output stream end.
retry_exhausted ==
    /\ wpolled
    /\ rpc = "Loop"
    /\ retry = 0
    /\ rpc' = "Done"
    /\ wpolled' = FALSE
    /\ witem' = End
    /\ UNCHANGED <<svars, seq, inner, retry, n_ticks, is_err, out, hist>>

\* connect: InnerTcpStream::connect, then the Registration stream is started.
connect_tcp ==
    /\ rpc = "Connect"
    /\ \/ /\ Start("Registration")
          /\ rpc' = "Registration"
          /\ UNCHANGED <<seq, inner, retry, n_ticks, is_err, wpolled, witem, out, hist>>
       \/ ConnectFailed("ConnectionRefused", hist)

\* A connect that starts GetSystemInfo on the first Registration item, while
\* the Registration stream has neither ended nor been dropped.
connect_registration_Impatient ==
    /\ rpc = "Registration"
    /\ ~polled
    /\ CASE item.kind = "err" -> ConnectFailed(item.val, hist)
         [] OTHER ->
              /\ Start("GetSystemInfo")
              /\ rpc' = "GetSystemInfo"
              /\ hist' = [hist EXCEPT ![Len(hist)].registered = TRUE]
              /\ UNCHANGED <<seq, inner, retry, n_ticks, is_err, wpolled, witem, out>>

\* connect: while let Some(response) = stream.next().await { response?; },
\* then the GetSystemInfo stream is started.
connect_registration ==
    /\ rpc = "Registration"
    /\ ~polled
    /\ CASE item.kind = "ok" ->
              /\ polled' = TRUE
              /\ item' = Pending
              /\ UNCHANGED <<dialog, pc, packet, wire, events, wvars>>
         [] item.kind = "err" -> ConnectFailed(item.val, hist)
         [] OTHER ->
              /\ Start("GetSystemInfo")
              /\ rpc' = "GetSystemInfo"
              /\ hist' = [hist EXCEPT ![Len(hist)].registered = TRUE]
              /\ UNCHANGED <<seq, inner, retry, n_ticks, is_err, wpolled, witem, out>>

\* packet.device_id.to_lowercase(), noted for this attempt.
Compared(device_id) ==
    [hist EXCEPT ![Len(hist)].device = to_lowercase(device_id)]

\* A connect that hands the transport over whatever the device_id is.
connect_get_system_info_NoCheck ==
    /\ rpc = "GetSystemInfo"
    /\ ~polled
    /\ CASE item.kind = "end" -> ConnectFailed("IncompleteData", hist)
         [] item.kind = "err" -> ConnectFailed(item.val, hist)
         [] item = Ok("Abort") -> ConnectFailed("Aborted", hist)
         [] OTHER ->
              \E device_id \in DeviceIds :
                  /\ inner' = "some"
                  /\ StartSequence(
                         [Compared(device_id) EXCEPT ![Len(hist)].connect = "ok"])
                  /\ UNCHANGED <<seq, retry, n_ticks, wpolled, witem, out>>

\* connect: the first item of GetSystemInfo decides; the transport is
\* returned, and stored in src.inner, only for the configured device.
connect_get_system_info ==
    /\ rpc = "GetSystemInfo"
    /\ ~polled
    /\ CASE item.kind = "end" -> ConnectFailed("IncompleteData", hist)
         [] item.kind = "err" -> ConnectFailed(item.val, hist)
         [] item = Ok("Abort") -> ConnectFailed("Aborted", hist)
         [] OTHER ->
              \E device_id \in DeviceIds :
                  IF to_lowercase(device_id) = to_lowercase(FeigSerial)
                  THEN /\ inner' = "some"
                       /\ StartSequence(
                              [Compared(device_id)
                                   EXCEPT ![Len(hist)].connect = "ok"])
                       /\ UNCHANGED <<seq, retry, n_ticks, wpolled, witem, out>>
                  ELSE ConnectFailed("NotConnected", Compared(device_id))

\* A wrapper that goes on to the next tick when the sequence has ended.
timeout_next_Continues ==
    /\ rpc = "Await"
    /\ ~polled
    /\ IF item.kind \in {"ok", "err"}
       THEN /\ is_err' = (item.kind = "err")
            /\ WYield(item)
            /\ rpc' = (IF item.kind = "err" THEN "Break" ELSE "Yielded")
            /\ UNCHANGED <<svars, seq, inner, retry, n_ticks, hist>>
       ELSE /\ Drop
            /\ rpc' = "Loop"
            /\ UNCHANGED <<seq, inner, retry, n_ticks, is_err, wpolled, witem,
                           out, hist>>

\* tokio::time::timeout(timeout, stream.next()) returned Ok(packet): a Some
\* item is yielded to the caller, None ends the inner loop and, is_err being
\* false, the wrapper returns.
timeout_next ==
    /\ rpc = "Await"
    /\ ~polled
    /\ IF item.kind \in {"ok", "err"}
       THEN /\ is_err' = (item.kind = "err")
            /\ WYield(item)
            /\ rpc' = (IF item.kind = "err" THEN "Break" ELSE "Yielded")
            /\ UNCHANGED <<svars, seq, inner, retry, n_ticks, hist>>
       ELSE /\ Drop
            /\ IF is_err
               THEN /\ inner' = "none"
                    /\ rpc' = "Loop"
                    /\ UNCHANGED <<wpolled, witem>>
               ELSE /\ rpc' = "Done"
                    /\ wpolled' = FALSE
                    /\ witem' = End
                    /\ UNCHANGED inner
            /\ UNCHANGED <<seq, retry, n_ticks, is_err, out, hist>>

\* A timeout that keeps the transport for the next attempt.
timeout_elapsed_KeepsTransport ==
    /\ rpc = "Await"
    /\ polled
    /\ is_err' = TRUE
    /\ Drop
    /\ rpc' = "Loop"
    /\ hist' = [hist EXCEPT ![Len(hist)].timed_out = TRUE]
    /\ UNCHANGED <<seq, inner, retry, n_ticks, wpolled, witem, out>>

\* tokio::time::timeout returned Err(Elapsed): is_err = true and None, the
\* stream is dropped, src.inner = None, continue.
timeout_elapsed ==
    /\ rpc = "Await"
    /\ polled
    /\ is_err' = TRUE
    /\ Drop
    /\ inner' = "none"
    /\ rpc' = "Loop"
    /\ hist' = [hist EXCEPT ![Len(hist)].timed_out = TRUE]
    /\ UNCHANGED <<seq, retry, n_ticks, wpolled, witem, out>>

\* Resumed after `yield packet` with is_err false: the next stream.next().
resume_after_ok ==
    /\ wpolled
    /\ rpc = "Yielded"
    /\ polled' = TRUE
    /\ item' = Pending
    /\ rpc' = "Await"
    /\ UNCHANGED <<dialog, pc, packet, wire, events>>
    /\ UNCHANGED <<seq, inner, retry, n_ticks, is_err, wpolled, witem, out, hist>>

\* An error that keeps the transport for the next attempt.
resume_after_err_KeepsTransport ==
    /\ wpolled
    /\ rpc = "Break"
    /\ Drop
    /\ rpc' = "Loop"
    /\ UNCHANGED <<seq, inner, retry, n_ticks, is_err, wpolled, witem, out, hist>>

\* Resumed after `yield packet` with is_err true: break, drop(stream),
\* src.inner = None, continue.
resume_after_err ==
    /\ wpolled
    /\ rpc = "Break"
    /\ Drop
    /\ inner' = "none"
    /\ rpc' = "Loop"
    /\ UNCHANGED <<seq, retry, n_ticks, is_err, wpolled, witem, out, hist>>

RetryInit ==
    /\ seq \in Dialogs
    /\ inner \in {"none", "some"}
    /\ n_ticks \in 0..MaxTicks
    /\ retry = n_ticks
    /\ rpc = "Loop"
    /\ is_err = FALSE
    /\ wpolled = FALSE
    /\ witem = NoItem
    /\ out = << >>
    /\ hist = << >>
    /\ Unconfigured
    /\ dialog = seq
    /\ pc = "Dropped"
    /\ polled = FALSE
    /\ packet = ""
    /\ item = NoItem
    /\ wire = << >>
    /\ events = << >>

RetryNext ==
    \/ caller_next /\ UNCHANGED <<fvars, pvars>>
    \/ retry_next /\ UNCHANGED <<fvars, pvars>>
    \/ retry_exhausted /\ UNCHANGED <<fvars, pvars>>
    \/ connect_tcp /\ UNCHANGED <<fvars, pvars>>
    \/ connect_registration /\ UNCHANGED <<fvars, pvars>>
    \/ connect_get_system_info /\ UNCHANGED <<fvars, pvars>>
    \/ timeout_next /\ UNCHANGED <<fvars, pvars>>
    \/ timeout_elapsed /\ UNCHANGED <<fvars, pvars>>
    \/ resume_after_ok /\ UNCHANGED <<fvars, pvars>>
    \/ resume_after_err /\ UNCHANGED <<fvars, pvars>>
    \/ write_packet /\ UNCHANGED <<wvars, fvars, pvars>>
    \/ read_ack /\ UNCHANGED <<wvars, fvars, pvars>>
    \/ read_packet /\ UNCHANGED <<wvars, fvars, pvars>>
    \/ write_ack /\ UNCHANGED <<wvars, fvars, pvars>>
    \/ end_of_stream /\ UNCHANGED <<wvars, fvars, pvars>>

RetrySpec == RetryInit /\ [][RetryNext]_vars

\* What runs without the terminal: the caller polls the output stream, the
\* retry stream gives its next item, the generators run to their next await
\* and the bytes handed to the transport are written.
WrapperSteps ==
    \/ caller_next
    \/ retry_next
    \/ retry_exhausted
    \/ connect_tcp
    \/ connect_registration
    \/ connect_get_system_info
    \/ timeout_next
    \/ resume_after_ok
    \/ resume_after_err
    \/ write_packet /\ UNCHANGED wvars
    \/ write_ack /\ UNCHANGED wvars
    \/ end_of_stream /\ UNCHANGED wvars

\* The wrapper under its scheduler: what can run does run, and the timer of
\* tokio::time::timeout fires when the stream under it stays pending. When
\* the terminal sends its next frame, if ever, is up to the terminal.
RetryLiveSpec ==
    /\ RetryInit
    /\ [][RetryNext]_vars
    /\ WF_vars(WrapperSteps /\ UNCHANGED <<fvars, pvars>>)
    /\ WF_vars(timeout_elapsed /\ UNCHANGED <<fvars, pvars>>)

-----------------------------------------------------------------------------
(* The controller: zvt_feig_terminal/src/feig.rs                           *)

\* Option<T>: None and Some(x).
None == {}

Some(x) == {x}

\* The value a Some holds.
unwrap(o) == CHOOSE x \in o : TRUE

\* receipt_no: Some(0xFFFF) of get_pending, "no pending transaction".
NoPendingReceipt == 65535

\* constants::ErrorMessages, as u8
ReceiverNotReady == 160

SystemError == 255

\* An event of a dialog with the one field of it the controller looks at, and
\* an error item.
Event(name, data) == [kind |-> "ok", val |-> name, data |-> data]

Failure == [kind |-> "err", val |-> "Io", data |-> None]

\* What the controller's `while let Some(response) = stream.next().await`
\* can see of one dialog: items in order, none after a terminal event.
Runs(items, terminal) ==
    { r \in UNION { [1..n -> items] : n \in 0..MaxItems } :
        \A i \in 1..(Len(r) - 1) : r[i] \notin terminal }

\* The item a dialog ended with; none when it gave no item.
Last(run) == IF run = << >> THEN None ELSE Some(run[Len(run)])

\* Result<T>: Ok(val) and Err(err).
Done(v) == [ok |-> TRUE, val |-> v, err |-> "", code |-> None]

Fail(e) == [ok |-> FALSE, val |-> None, err |-> e, code |-> None]

\* Err(ZVTError::Aborted(code))
Aborted(c) == [ok |-> FALSE, val |-> None, err |-> "Aborted", code |-> Some(c)]

\* What a loop over a dialog returned, with the item the dialog ended with.
Outcome(r, run) ==
    [ok |-> r.ok, val |-> r.val, err |-> r.err, code |-> r.code,
     last |-> Last(run)]

\* The tokens the caller uses, the amount it pre-authorizes and the amounts
\* it commits, the receipt numbers the terminal assigns and the one it
\* reports as pending, and the terminal ids "00000000", "52" and "x".
Tokens == {"t1", "t2", "t3"}

PreAuthorizationAmounts == {20}

Amounts == {10, 30}

ReceiptNos == {1, 2}

PendingReceiptNos == {3}

TerminalIds == { <<48, 48, 48, 48, 48, 48, 48, 48>>, <<53, 50>>, <<120>> }

\* TcpStream::new: an empty config.terminal_id becomes "00000000".
TcpStream_new(tid) ==
    IF tid = << >> THEN <<48, 48, 48, 48, 48, 48, 48, 48>> ELSE tid

\* str::parse::<usize> on ASCII digits.
RECURSIVE parse_digits(_, _, _)
parse_digits(s, i, acc) ==
    IF i > Len(s) THEN acc ELSE parse_digits(s, i + 1, acc * 10 + (s[i] - 48))

parse_usize(s) ==
    IF Len(s) > 0 /\ \A i \in DOMAIN s : s[i] \in 48..57
    THEN [ok |-> TRUE, val |-> parse_digits(s, 1, 0)]
    ELSE [ok |-> FALSE, val |-> 0]

\* HashMap<String, TransactionData> as the set of its entries.
Entry(token, receipt_no, amount) ==
    [token |-> token, receipt_no |-> receipt_no,
     pre_authorization_amount |-> amount]

contains_key(m, token) == \E e \in m : e.token = token

get(m, token) == CHOOSE e \in m : e.token = token

\* A remove that takes every entry out of the map.
remove_All(m, token) == {}

remove(m, token) == { e \in m : e.token # token }

insert(m, e) == remove(m, e.token) \cup {e}

len(m) == Cardinality(m)

\* A request as far as the controller fills it in.
Request(d, token, receipt_no, amount) ==
    [dialog |-> d, token |-> token, receipt_no |-> receipt_no,
     amount |-> amount]

\* Feig::get_system_info
RECURSIVE get_system_info(_, _)
get_system_info(run, i) ==
    IF i > Len(run) THEN Fail("Stream")
    ELSE IF run[i].kind = "err" THEN get_system_info(run, i + 1)
    ELSE IF run[i].val = "Abort" THEN Fail("Aborted")
    ELSE Done(run[i].data)

\* The completion carries the terminal id the terminal has, as ASCII.
GetSystemInfoItems ==
    { Event("CVendFunctionsEnhancedSystemInformationCompletion", Some(tid)) :
        tid \in TerminalIds }
    \cup { Event("Abort", None), Failure }

GetSystemInfoResults ==
    { get_system_info(run, 1) :
        run \in Runs(GetSystemInfoItems, GetSystemInfoItems \ {Failure}) }

\* Feig::get_pending
RECURSIVE get_pending(_, _)
get_pending(run, i) ==
    IF i > Len(run) THEN Fail("Stream")
    ELSE IF run[i].kind = "err" THEN get_pending(run, i + 1)
    ELSE IF run[i].val = "PartialReversalAbort"
         THEN IF run[i].data = None \/ run[i].data = Some(NoPendingReceipt)
              THEN Done(None)
              ELSE Done(run[i].data)
    ELSE Fail("UnexpectedPacket")

GetPendingItems ==
    { Event("PartialReversalAbort", None),
      Event("PartialReversalAbort", Some(NoPendingReceipt)),
      Event("CompletionData", None), Failure }
    \cup { Event("PartialReversalAbort", Some(r)) : r \in PendingReceiptNos }

GetPendingResults ==
    { get_pending(run, 1) :
        run \in Runs(GetPendingItems, GetPendingItems \ {Failure}) }

\* Feig::cancel_transaction_by_receipt_no
RECURSIVE cancel_transaction_by_receipt_no(_, _)
cancel_transaction_by_receipt_no(run, i) ==
    IF i > Len(run) THEN Fail("Stream")
    ELSE IF run[i].kind = "err" THEN cancel_transaction_by_receipt_no(run, i + 1)
    ELSE IF run[i].val = "CompletionData" THEN Done(None)
    ELSE IF run[i].val = "PartialReversalAbort" THEN Fail("Aborted")
    ELSE cancel_transaction_by_receipt_no(run, i + 1)

PreAuthReversalItems ==
    { Event("IntermediateStatusInformation", None),
      Event("CompletionData", None),
      Event("PartialReversalAbort", None), Failure }

PreAuthReversalRuns ==
    Runs(PreAuthReversalItems,
         { Event("CompletionData", None), Event("PartialReversalAbort", None) })

PreAuthReversalResults ==
    { cancel_transaction_by_receipt_no(run, 1) : run \in PreAuthReversalRuns }

PreAuthReversalOutcomes ==
    { Outcome(cancel_transaction_by_receipt_no(run, 1), run) :
        run \in PreAuthReversalRuns }

\* What the terminal answers to the get_pending calls of one cancel_pending:
\* at most MaxPending pending receipts, then none or a failure.
PendingReports ==
    { g \in [1..(MaxPending + 1) -> GetPendingResults] :
        ~g[MaxPending + 1].ok \/ g[MaxPending + 1].val = None }

\* Feig::cancel_pending after self.transactions.clear(): the loop over
\* get_pending and cancel_transaction_by_receipt_no.
RECURSIVE cancel_pending(_, _, _, _)
cancel_pending(gets, cancels, i, sent) ==
    LET sent1 == Append(sent, Request("PartialReversal", "",
                                      Some(NoPendingReceipt), None))
        sent2 == Append(sent1, Request("PreAuthReversal", "", gets[i].val, None))
    IN  IF ~gets[i].ok THEN [ok |-> FALSE, err |-> gets[i].err, calls |-> sent1]
        ELSE IF gets[i].val = None THEN [ok |-> TRUE, err |-> "", calls |-> sent1]
        ELSE IF ~cancels[i].ok
             THEN [ok |-> FALSE, err |-> cancels[i].err, calls |-> sent2]
        ELSE cancel_pending(gets, cancels, i + 1, sent2)

CancelPendingResults ==
    { cancel_pending(g, c, 1, << >>) :
        g \in PendingReports, c \in [1..MaxPending -> PreAuthReversalResults] }

\* A loop over the EndOfDay dialog that fails on every Abort.
RECURSIVE end_of_day_loop_Strict(_, _)
end_of_day_loop_Strict(run, i) ==
    IF i > Len(run) THEN Fail("Stream")
    ELSE IF run[i].kind = "err" THEN end_of_day_loop_Strict(run, i + 1)
    ELSE IF run[i].val = "CompletionData" THEN Done(None)
    ELSE IF run[i].val = "Abort" THEN Aborted(unwrap(run[i].data))
    ELSE end_of_day_loop_Strict(run, i + 1)

\* Feig::end_of_day: the loop over the EndOfDay dialog.
RECURSIVE end_of_day_loop(_, _)
end_of_day_loop(run, i) ==
    IF i > Len(run) THEN Fail("Stream")
    ELSE IF run[i].kind = "err" THEN end_of_day_loop(run, i + 1)
    ELSE IF run[i].val = "CompletionData" THEN Done(None)
    ELSE IF run[i].val = "Abort"
         THEN IF run[i].data = Some(ReceiverNotReady)
              THEN Done(None)
              ELSE Aborted(unwrap(run[i].data))
    ELSE end_of_day_loop(run, i + 1)

EndOfDayItems ==
    { Event("IntermediateStatusInformation", None),
      Event("CompletionData", None),
      Event("Abort", Some(ReceiverNotReady)),
      Event("Abort", Some(SystemError)), Failure }

EndOfDayRuns ==
    Runs(EndOfDayItems,
         { it \in EndOfDayItems : it.val \in {"CompletionData", "Abort"} })

EndOfDayResults == { end_of_day_loop(run, 1) : run \in EndOfDayRuns }

EndOfDayOutcomes ==
    { Outcome(end_of_day_loop(run, 1), run) : run \in EndOfDayRuns }

\* What one call of end_of_day did: its result, the requests it sent, the
\* item its EndOfDay dialog ended with (none: no item, or no dialog), and
\* `ran`: end_of_day_last_instant was set and the map cleared.
EndOfDay(r, sent, last, ran) ==
    [ok |-> r.ok, err |-> r.err, code |-> r.code, calls |-> sent,
     last |-> last, ran |-> ran]

\* Feig::end_of_day past the terminal-id check: cancel_pending()?, then the
\* EndOfDay dialog.
end_of_day_body ==
    { IF ~p.ok
      THEN EndOfDay(Fail(p.err), p.calls, None, TRUE)
      ELSE EndOfDay(o, Append(p.calls, Request("EndOfDay", "", None, None)),
                    o.last, TRUE) :
        p \in CancelPendingResults, o \in EndOfDayOutcomes }

\* An end_of_day that does not look at the terminal id it has parsed.
end_of_day_Unconditional(tid) ==
    IF ~parse_usize(tid).ok
    THEN { EndOfDay(Fail("ParseIntError"), << >>, None, FALSE) }
    ELSE end_of_day_body

\* Feig::end_of_day: the outcomes it can have for a configured terminal id.
end_of_day(tid) ==
    IF ~parse_usize(tid).ok
    THEN { EndOfDay(Fail("ParseIntError"), << >>, None, FALSE) }
    ELSE IF parse_usize(tid).val = 0
    THEN { EndOfDay(Done(None), << >>, None, FALSE) }
    ELSE end_of_day_body

\* Feig::begin_transaction: the loop over the Reservation dialog and the
\* match on receipt_no that follows it.
RECURSIVE reservation_loop(_, _, _)
reservation_loop(run, i, receipt_no) ==
    IF i > Len(run)
    THEN (IF receipt_no = None THEN Fail("Stream") ELSE Done(receipt_no))
    ELSE IF run[i].kind = "err" THEN reservation_loop(run, i + 1, receipt_no)
    ELSE IF run[i].val = "Abort" THEN Fail("Aborted")
    ELSE IF run[i].val = "StatusInformation" /\ run[i].data # None
         THEN reservation_loop(run, i + 1, run[i].data)
    ELSE reservation_loop(run, i + 1, receipt_no)

ReservationItems ==
    { Event("IntermediateStatusInformation", None),
      Event("StatusInformation", None),
      Event("CompletionData", None),
      Event("Abort", Some(SystemError)), Failure }
    \cup { Event("StatusInformation", Some(r)) : r \in ReceiptNos }

ReservationRuns ==
    Runs(ReservationItems,
         { Event("CompletionData", None), Event("Abort", Some(SystemError)) })

ReservationResults ==
    { reservation_loop(run, 1, None) : run \in ReservationRuns }

ReservationOutcomes ==
    { Outcome(reservation_loop(run, 1, None), run) : run \in ReservationRuns }

\* Feig::commit_transaction: the loop over the PartialReversal dialog and
\* status_information.ok_or(error).
RECURSIVE partial_reversal_loop(_, _, _)
partial_reversal_loop(run, i, status_information) ==
    IF i > Len(run)
    THEN (IF status_information THEN Done(None) ELSE Fail("Stream"))
    ELSE IF run[i].kind = "err"
         THEN partial_reversal_loop(run, i + 1, status_information)
    ELSE IF run[i].val = "PartialReversalAbort" THEN Fail("Aborted")
    ELSE IF run[i].val = "StatusInformation"
         THEN partial_reversal_loop(run, i + 1, TRUE)
    ELSE partial_reversal_loop(run, i + 1, status_information)

PartialReversalItems ==
    { Event("IntermediateStatusInformation", None),
      Event("StatusInformation", None),
      Event("CompletionData", None),
      Event("PartialReversalAbort", None), Failure }

PartialReversalRuns ==
    Runs(PartialReversalItems,
         { Event("CompletionData", None), Event("PartialReversalAbort", None) })

PartialReversalResults ==
    { partial_reversal_loop(run, 1, FALSE) : run \in PartialReversalRuns }

PartialReversalOutcomes ==
    { Outcome(partial_reversal_loop(run, 1, FALSE), run) :
        run \in PartialReversalRuns }

\* A subtraction that does not saturate.
saturating_sub_Plain(a, b) == a - b

\* usize::saturating_sub
saturating_sub(a, b) == IF b > a THEN 0 ELSE a - b

\* Feig::read_card: the loop over the ReadCard dialog and
\* card_info.ok_or(error).  A StatusInformation carries an application id
\* that is not deny-listed ("bank"), else a uuid, else neither; an Abort
\* carries its code as ErrorMessages::from_u8 names it.
RECURSIVE read_card_loop(_, _, _)
read_card_loop(run, i, card_info) ==
    IF i > Len(run)
    THEN (IF card_info = None THEN Fail("Stream") ELSE Done(None))
    ELSE IF run[i].kind = "err" THEN read_card_loop(run, i + 1, card_info)
    ELSE IF run[i].val = "Abort"
         THEN IF run[i].data = {"AbortViaTimeoutOrAbortKey"}
              THEN Fail("NoCardPresented")
              ELSE Fail("Aborted")
    ELSE IF run[i].val = "StatusInformation"
         THEN IF run[i].data = None
              THEN Fail("IncompleteData")
              ELSE read_card_loop(run, i + 1, run[i].data)
    ELSE read_card_loop(run, i + 1, card_info)

ReadCardItems ==
    { Event("IntermediateStatusInformation", None),
      Event("StatusInformation", None),
      Event("StatusInformation", Some("bank")),
      Event("StatusInformation", Some("uuid")),
      Event("Abort", Some("AbortViaTimeoutOrAbortKey")),
      Event("Abort", Some("SystemError")), Failure }

ReadCardRuns ==
    Runs(ReadCardItems,
         { it \in ReadCardItems : it.val \in {"StatusInformation", "Abort"} })

ReadCardResults == { read_card_loop(run, 1, None) : run \in ReadCardRuns }

ReadCardOutcomes ==
    { Outcome(read_card_loop(run, 1, None), run) : run \in ReadCardRuns }

\* Feig::update_firmware: the loop over the WriteFile dialog.
RECURSIVE write_file_loop(_, _)
write_file_loop(run, i) ==
    IF i > Len(run) THEN Done(None)
    ELSE IF run[i].kind = "err" THEN Fail("Stream")
    ELSE IF run[i].val = "Abort" THEN Fail("Aborted")
    ELSE write_file_loop(run, i + 1)

WriteFileItems ==
    { Event("RequestForData", None), Event("CompletionData", None),
      Event("Abort", None), Failure }

WriteFileResults ==
    { write_file_loop(run, 1) :
        run \in Runs(WriteFileItems,
                     { Event("CompletionData", None), Event("Abort", None) }) }

\* Feig::set_terminal_id: the loop over the SetTerminalId dialog; Done stands
\* for the CompletionData arm, which goes on to check the new terminal id.
RECURSIVE set_terminal_id_loop(_, _)
set_terminal_id_loop(run, i) ==
    IF i > Len(run) THEN Fail("Stream")
    ELSE IF run[i].kind = "err" THEN set_terminal_id_loop(run, i + 1)
    ELSE IF run[i].val = "CompletionData" THEN Done(None)
    ELSE Fail("Aborted")

SetTerminalIdItems ==
    { Event("CompletionData", None), Event("Abort", None), Failure }

SetTerminalIdRuns ==
    Runs(SetTerminalIdItems, SetTerminalIdItems \ {Failure})

SetTerminalIdOutcomes ==
    { Outcome(set_terminal_id_loop(run, 1), run) : run \in SetTerminalIdRuns }

\* Feig::run_diagnosis: the loop over the Diagnosis dialog and the Err(error)
\* that follows it.
RECURSIVE run_diagnosis(_, _)
run_diagnosis(run, i) ==
    IF i > Len(run) THEN Fail("Stream")
    ELSE IF run[i].kind = "err" THEN run_diagnosis(run, i + 1)
    ELSE IF run[i].val = "Abort" THEN Fail("ReceivedAbort")
    ELSE run_diagnosis(run, i + 1)

DiagnosisItems ==
    { Event("SetTimeAndDate", None),
      Event("IntermediateStatusInformation", None),
      Event("CompletionData", None), Event("Abort", None), Failure }

DiagnosisRuns ==
    Runs(DiagnosisItems,
         { Event("CompletionData", None), Event("Abort", None) })

DiagnosisOutcomes ==
    { Outcome(run_diagnosis(run, 1), run) : run \in DiagnosisRuns }

\* Feig::initialize: the loop over the Initialization dialog.
RECURSIVE initialize_loop(_, _)
initialize_loop(run, i) ==
    IF i > Len(run) THEN Fail("Stream")
    ELSE IF run[i].kind = "err" THEN initialize_loop(run, i + 1)
    ELSE IF run[i].val = "CompletionData" THEN Done(None)
    ELSE IF run[i].val = "Abort" THEN Fail("Aborted")
    ELSE initialize_loop(run, i + 1)

InitializationItems ==
    { Event("IntermediateStatusInformation", None),
      Event("CompletionData", None), Event("Abort", None), Failure }

InitializationRuns ==
    Runs(InitializationItems,
         { Event("CompletionData", None), Event("Abort", None) })

InitializationOutcomes ==
    { Outcome(initialize_loop(run, 1), run) : run \in InitializationRuns }

\* A call of an operation with its arguments, as far as it has them.
Call(op, token, amount) == [op |-> op, token |-> token, amount |-> amount]

NoResult ==
    [op |-> "", token |-> "", amount |-> None, ok |-> TRUE, err |-> "",
     code |-> None]

Returned(call, r) ==
    [op |-> call.op, token |-> call.token, amount |-> call.amount,
     ok |-> r.ok, err |-> r.err, code |-> r.code]

\* How the dialog d of an operation ended.
Seen(d, o) == [dialog |-> d, last |-> o.last]

\* The fields of the controller as an operation finds them.
Fields ==
    [transactions |-> transactions, eod_due |-> eod_due,
     successfully_configured |-> successfully_configured]

\* The operation called as `call` returns r, having sent the requests `sent`, run the dialogs
\* `dialogs` and called end_of_day with outcome e (None: not called).
Return(call, r, sent, dialogs, e) ==
    /\ result' = Returned(call, r)
    /\ calls' = sent
    /\ seen' = dialogs
    /\ eod' = e
    /\ before' = Fields

\* The effect of one self.end_of_day() with outcome e on a map m.
AfterEndOfDay(m, e) == IF e.ran THEN {} ELSE m

\* Feig::begin_transaction for one token and amount; `active` is what makes
\* it bail with ActiveTransaction.
BeginTransaction(token, amount, active) ==
    /\ IF active
       THEN /\ Return(Call("begin_transaction", token, Some(amount)),
                      Fail("ActiveTransaction"),
                      << >>, << >>, None)
            /\ UNCHANGED transactions
       ELSE \E o \in ReservationOutcomes :
                /\ Return(Call("begin_transaction", token, Some(amount)), o,
                          << Request("Reservation", token, None, Some(amount)) >>,
                          << Seen("Reservation", o) >>, None)
                /\ transactions' =
                      IF o.ok
                      THEN insert(transactions,
                                  Entry(token, unwrap(o.val), amount))
                      ELSE transactions
    /\ UNCHANGED <<transactions_max_num, terminal_id, eod_due,
                   successfully_configured, svars, wvars>>

\* A begin_transaction that does not look at the number of transactions.
begin_transaction_NoLimit ==
    \E token \in Tokens, amount \in PreAuthorizationAmounts :
        BeginTransaction(token, amount, contains_key(transactions, token))

\* A begin_transaction that does not look for the token in the map.
begin_transaction_NoTokenCheck ==
    \E token \in Tokens, amount \in PreAuthorizationAmounts :
        BeginTransaction(token, amount,
                         len(transactions) = transactions_max_num)

\* Feig::begin_transaction
begin_transaction ==
    \E token \in Tokens, amount \in PreAuthorizationAmounts :
        BeginTransaction(token, amount,
                         \/ len(transactions) = transactions_max_num
                         \/ contains_key(transactions, token))

\* Feig::cancel_transaction
cancel_transaction ==
    \E token \in Tokens :
        LET removed == remove(transactions, token)
            sent == << Request("PreAuthReversal", "",
                               Some(get(transactions, token).receipt_no), None) >>
        IN  /\ IF ~contains_key(transactions, token)
               THEN /\ Return(Call("cancel_transaction", token, None),
                              Fail("UnknownToken"),
                              << >>, << >>, None)
                    /\ UNCHANGED <<transactions, eod_due>>
               ELSE \E c \in PreAuthReversalOutcomes :
                        IF c.ok /\ removed = {}
                        THEN \E e \in end_of_day(terminal_id) :
                                 /\ Return(Call("cancel_transaction", token, None),
                                           e,
                                           sent \o e.calls,
                                           << Seen("PreAuthReversal", c) >>,
                                           Some(e))
                                 /\ transactions' = AfterEndOfDay(removed, e)
                                 /\ eod_due' = (IF e.ran THEN FALSE ELSE eod_due)
                        ELSE /\ Return(Call("cancel_transaction", token, None),
                                       c, sent,
                                       << Seen("PreAuthReversal", c) >>, None)
                             /\ transactions' = removed
                             /\ UNCHANGED eod_due
            /\ UNCHANGED <<transactions_max_num, terminal_id,
                           successfully_configured, svars, wvars>>

\* Feig::commit_transaction for one token and amount; `kept` is the map a
\* failed PartialReversal dialog leaves.
CommitTransaction(token, amount, kept) ==
    LET transaction == get(transactions, token)
        removed == remove(transactions, token)
        reversal_amount ==
            saturating_sub(transaction.pre_authorization_amount, amount)
        sent == << Request("PartialReversal", token,
                           Some(transaction.receipt_no),
                           Some(reversal_amount)) >>
    IN  /\ IF ~contains_key(transactions, token)
           THEN /\ Return(Call("commit_transaction", token, Some(amount)),
                          Fail("UnknownToken"),
                          << >>, << >>, None)
                /\ UNCHANGED <<transactions, eod_due>>
           ELSE \E p \in PartialReversalOutcomes :
                    IF ~p.ok
                    THEN /\ Return(Call("commit_transaction", token, Some(amount)),
                                   p, sent,
                                   << Seen("PartialReversal", p) >>, None)
                         /\ transactions' = kept
                         /\ UNCHANGED eod_due
                    ELSE IF removed = {}
                    THEN \E e \in end_of_day(terminal_id) :
                             /\ Return(Call("commit_transaction", token, Some(amount)),
                                       p,
                                       sent \o e.calls,
                                       << Seen("PartialReversal", p) >>,
                                       Some(e))
                             /\ transactions' = AfterEndOfDay(removed, e)
                             /\ eod_due' = (IF e.ran THEN FALSE ELSE eod_due)
                    ELSE /\ Return(Call("commit_transaction", token, Some(amount)),
                                   p, sent,
                                   << Seen("PartialReversal", p) >>, None)
                         /\ transactions' = removed
                         /\ UNCHANGED eod_due
        /\ UNCHANGED <<transactions_max_num, terminal_id,
                       successfully_configured, svars, wvars>>

\* A commit_transaction that takes the token out of the map before the
\* dialog, as cancel_transaction does.
commit_transaction_RemovesFirst ==
    \E token \in Tokens, amount \in Amounts :
        CommitTransaction(token, amount, remove(transactions, token))

\* Feig::commit_transaction
commit_transaction ==
    \E token \in Tokens, amount \in Amounts :
        CommitTransaction(token, amount, transactions)

\* Feig::read_card; `due` is what makes it run end_of_day first.
ReadCard(due) ==
    LET sent == << Request("ReadCard", "", None, None) >>
    IN  /\ IF due
           THEN \E e \in end_of_day(terminal_id) :
                    /\ transactions' = AfterEndOfDay(transactions, e)
                    /\ eod_due' = (IF e.ran THEN FALSE ELSE eod_due)
                    /\ IF ~e.ok
                       THEN Return(Call("read_card", "", None),
                                   e, e.calls, << >>, Some(e))
                       ELSE \E o \in ReadCardOutcomes :
                                Return(Call("read_card", "", None),
                                       o, e.calls \o sent,
                                       << Seen("ReadCard", o) >>, Some(e))
           ELSE \E o \in ReadCardOutcomes :
                    /\ Return(Call("read_card", "", None), o, sent,
                              << Seen("ReadCard", o) >>, None)
                    /\ UNCHANGED <<transactions, eod_due>>
        /\ UNCHANGED <<transactions_max_num, terminal_id,
                       successfully_configured, svars, wvars>>

\* A read_card that runs the end-of-day whenever the interval has elapsed.
read_card_IgnoresTransactions == ReadCard(eod_due)

\* Feig::read_card
read_card == ReadCard(eod_due /\ transactions = {})

\* Feig::update_firmware.  Of the system information it reads sw_version
\* only: `skip` is the version check finding the desired version installed,
\* `path_ok` is payload_dir.to_str() giving a string.
update_firmware ==
    LET info == << Request("GetSystemInfo", "", None, None) >>
        write == << Request("WriteFile", "", None, None) >>
    IN  /\ \E g \in { Returned(Call("update_firmware", "", None), x) :
                         x \in GetSystemInfoResults } :
               IF ~g.ok
               THEN /\ Return(Call("update_firmware", "", None),
                              g, info, << >>, None)
                    /\ UNCHANGED <<transactions, eod_due>>
               ELSE \E skip \in BOOLEAN :
                   IF skip
                   THEN /\ Return(Call("update_firmware", "", None),
                                  Done(None), info,
                                  << >>, None)
                        /\ UNCHANGED <<transactions, eod_due>>
                   ELSE \E e \in end_of_day(terminal_id) :
                        /\ transactions' = AfterEndOfDay(transactions, e)
                        /\ eod_due' = (IF e.ran THEN FALSE ELSE eod_due)
                        /\ IF ~e.ok
                           THEN Return(Call("update_firmware", "", None),
                                       e, info \o e.calls,
                                       << >>, Some(e))
                           ELSE \E path_ok \in BOOLEAN :
                                    IF ~path_ok
                                    THEN Return(Call("update_firmware", "", None),
                                                
                                                Fail("NotAString"),
                                                info \o e.calls, << >>, Some(e))
                                    ELSE \E w \in WriteFileResults :
                                             Return(Call("update_firmware", "", None),
                                                    w,
                                                    info \o e.calls \o write,
                                                    << >>, Some(e))
        /\ UNCHANGED <<transactions_max_num, terminal_id,
                       successfully_configured, svars, wvars>>

\* Feig::initialize as configure reaches it, after the requests `sent` and
\* the dialogs `dialogs`; successfully_configured is set when it returns Ok.
Initialize(op, sent, dialogs) ==
    IF ~parse_usize(terminal_id).ok
    THEN /\ Return(Call(op, "", None),
                   Fail("ParseIntError"), sent, dialogs, None)
         /\ successfully_configured' = FALSE
    ELSE IF parse_usize(terminal_id).val = 0
    THEN /\ Return(Call(op, "", None), Done(None), sent, dialogs, None)
         /\ successfully_configured' = TRUE
    ELSE \E o \in InitializationOutcomes :
             /\ Return(Call(op, "", None), o,
                       Append(sent, Request("Initialization", "", None, None)),
                       Append(dialogs, Seen("Initialization", o)), None)
             /\ successfully_configured' = o.ok

\* An operation of configure's flow fails with r.
Unconfigure(op, r, sent, dialogs) ==
    /\ Return(Call(op, "", None), r, sent, dialogs, None)
    /\ successfully_configured' = FALSE

\* Feig::configure past the successfully_configured check: set_terminal_id,
\* run_diagnosis if the terminal id was changed, initialize.
ConfigureFlow(op) ==
    LET info == Request("GetSystemInfo", "", None, None)
        set == Request("SetTerminalId", "", None, None)
        diagnosis == Request("Diagnosis", "", None, None)
    IN  \E g \in GetSystemInfoResults :
            IF ~g.ok THEN Unconfigure(op, g, << info >>, << >>)
            ELSE IF terminal_id = unwrap(g.val)
            THEN Initialize(op, << info >>, << >>)
            ELSE IF ~parse_usize(terminal_id).ok
            THEN Unconfigure(op, Fail("ParseIntError"), << info >>, << >>)
            ELSE \E s \in SetTerminalIdOutcomes :
                LET dialogs == << Seen("SetTerminalId", s) >>
                IN  IF ~s.ok
                    THEN Unconfigure(op, s, << info, set >>, dialogs)
                    ELSE \E h \in GetSystemInfoResults :
                        IF ~h.ok
                        THEN Unconfigure(op, h, << info, set, info >>, dialogs)
                        ELSE IF unwrap(h.val) # terminal_id
                        THEN Unconfigure(op, Fail("TidMismatch"),
                                         << info, set, info >>, dialogs)
                        ELSE \E d \in DiagnosisOutcomes :
                            IF ~d.ok
                            THEN Unconfigure(op, d,
                                             << info, set, info, diagnosis >>,
                                             Append(dialogs, Seen("Diagnosis", d)))
                            ELSE Initialize(op, << info, set, info, diagnosis >>,
                                            Append(dialogs, Seen("Diagnosis", d)))

\* A configure that does not look at successfully_configured.
configure_Always ==
    /\ ConfigureFlow("configure")
    /\ UNCHANGED <<transactions, transactions_max_num, terminal_id, eod_due,
                   svars, wvars>>

\* Feig::configure
configure ==
    /\ IF successfully_configured
       THEN /\ Return(Call("configure", "", None),
                      Done(None), << >>, << >>, None)
            /\ UNCHANGED successfully_configured
       ELSE ConfigureFlow("configure")
    /\ UNCHANGED <<transactions, transactions_max_num, terminal_id, eod_due,
                   svars, wvars>>

\* Feig::reconnect: a new TcpStream, the flag cleared, then configure.
reconnect ==
    /\ ConfigureFlow("reconnect")
    /\ UNCHANGED <<transactions, transactions_max_num, terminal_id, eod_due,
                   svars, wvars>>

\* Time goes by, with no operation called, until end_of_day_max_interval
\* has elapsed since the last end-of-day.
time_elapses ==
    /\ ~eod_due
    /\ eod_due' = TRUE
    /\ Return(Call("", "", None), Done(None), << >>, << >>, None)
    /\ UNCHANGED <<transactions, transactions_max_num, terminal_id,
                   successfully_configured, svars, wvars>>

\* The controller before any of its operations was called.
NoOperation ==
    /\ transactions = {}
    /\ before = Fields
    /\ result = NoResult
    /\ calls = << >>
    /\ seen = << >>
    /\ eod = None

\* Feig::new with a transport that no dialog is using; its configure call
\* succeeded or failed.
FeigInit ==
    /\ transactions_max_num \in 0..MaxTransactions
    /\ terminal_id \in { TcpStream_new(tid) : tid \in TerminalIds \cup {<< >>} }
    /\ eod_due \in BOOLEAN
    /\ successfully_configured \in BOOLEAN
    /\ NoOperation
    /\ arg = << >>
    /\ ret = << >>
    /\ dialog = "Registration"
    /\ pc = "Dropped"
    /\ polled = FALSE
    /\ packet = ""
    /\ item = NoItem
    /\ wire = << >>
    /\ events = << >>
    /\ seq = dialog
    /\ inner = "none"
    /\ rpc = "Unused"
    /\ retry = 0
    /\ n_ticks = 0
    /\ is_err = FALSE
    /\ wpolled = FALSE
    /\ witem = NoItem
    /\ out = << >>
    /\ hist = << >>

FeigNext ==
    \/ begin_transaction /\ UNCHANGED pvars
    \/ cancel_transaction /\ UNCHANGED pvars
    \/ commit_transaction /\ UNCHANGED pvars
    \/ read_card /\ UNCHANGED pvars
    \/ update_firmware /\ UNCHANGED pvars
    \/ configure /\ UNCHANGED pvars
    \/ reconnect /\ UNCHANGED pvars
    \/ time_elapses /\ UNCHANGED pvars

FeigSpec == FeigInit /\ [][FeigNext]_vars

-----------------------------------------------------------------------------
(* The controller's loops over a wrapped dialog, item by item              *)

\* The functions of the controller that loop over the stream of a dialog,
\* with the dialog each runs.
ControllerLoops ==
    { [op |-> "get_system_info", dialog |-> "GetSystemInfo"],
      [op |-> "set_terminal_id", dialog |-> "SetTerminalId"],
      [op |-> "run_diagnosis", dialog |-> "Diagnosis"],
      [op |-> "initialize", dialog |-> "Initialization"],
      [op |-> "get_pending", dialog |-> "PartialReversal"],
      [op |-> "end_of_day", dialog |-> "EndOfDay"],
      [op |-> "read_card", dialog |-> "ReadCard"],
      [op |-> "begin_transaction", dialog |-> "Reservation"],
      [op |-> "cancel_transaction_by_receipt_no", dialog |-> "PreAuthReversal"],
      [op |-> "commit_transaction", dialog |-> "PartialReversal"] }

\* A loop that leaves the function on every item.
returns_OnAnyItem(op, it) == {TRUE}

\* The body of `while let Some(response) = stream.next().await` in each
\* function: whether it leaves the function (return, bail!, `?`) on the
\* item; both where the data of the packet decides.  An Err item is noted
\* and the loop continues.
returns(op, it) ==
    IF it.kind = "err" THEN {FALSE}
    ELSE CASE op \in {"get_system_info", "set_terminal_id", "get_pending"} ->
                {TRUE}
           [] op \in {"run_diagnosis", "begin_transaction"} ->
                {it.val = "Abort"}
           [] op \in {"initialize", "end_of_day"} ->
                {it.val \in {"CompletionData", "Abort"}}
           [] op = "read_card" ->
                IF it.val = "StatusInformation" THEN BOOLEAN
                ELSE {it.val = "Abort"}
           [] op = "cancel_transaction_by_receipt_no" ->
                {it.val \in {"CompletionData", "PartialReversalAbort"}}
           [] op = "commit_transaction" ->
                {it.val = "PartialReversalAbort"}

\* The last Ok item the loop has got.
Got(it) == IF it.kind = "ok" THEN it.val ELSE ret.last

\* stream.next() of the loop: the first one, or the next one after an item
\* on which the loop continues.
controller_next ==
    /\ ~ret.returned
    /\ \/ witem = NoItem
       \/ witem.kind \in {"ok", "err"} /\ FALSE \in returns(arg.op, witem)
    /\ caller_next
    /\ ret' = [ret EXCEPT !.last = Got(witem)]
    /\ UNCHANGED arg

\* The function returns: on an item that makes it leave the loop, or after
\* the stream has ended.  The stream is dropped as it stands.
controller_returns ==
    /\ ~ret.returned
    /\ ~wpolled
    /\ \/ witem.kind = "end"
       \/ witem.kind \in {"ok", "err"} /\ TRUE \in returns(arg.op, witem)
    /\ ret' = [ret EXCEPT !.last = Got(witem), !.returned = TRUE]
    /\ UNCHANGED <<svars, wvars, arg>>

\* The request of the function's sequence is counted when write_packet has
\* put it on the wire; the requests of connect are not.
request_written ==
    /\ ret' = [ret EXCEPT !.requests =
                  IF rpc = "Await" /\ wire' = Append(wire, Written(Input(seq)))
                  THEN @ + 1 ELSE @]
    /\ UNCHANGED arg

\* A function of the controller about to run its dialog on the socket,
\* connected or not.
HandoverInit ==
    /\ arg \in ControllerLoops
    /\ ret = [last |-> "", returned |-> FALSE, requests |-> 0]
    /\ seq = arg.dialog
    /\ inner \in {"none", "some"}
    /\ n_ticks \in 1..MaxTicks
    /\ retry = n_ticks
    /\ rpc = "Loop"
    /\ is_err = FALSE
    /\ wpolled = FALSE
    /\ witem = NoItem
    /\ out = << >>
    /\ hist = << >>
    /\ transactions = {}
    /\ transactions_max_num = 0
    /\ terminal_id = << >>
    /\ eod_due = FALSE
    /\ successfully_configured = FALSE
    /\ result = ""
    /\ calls = << >>
    /\ seen = << >>
    /\ eod = {}
    /\ before = ""
    /\ dialog = seq
    /\ pc = "Dropped"
    /\ polled = FALSE
    /\ packet = ""
    /\ item = NoItem
    /\ wire = << >>
    /\ events = << >>

HandoverNext ==
    \/ controller_next /\ UNCHANGED fvars
    \/ controller_returns /\ UNCHANGED fvars
    \/ retry_next /\ UNCHANGED <<fvars, pvars>>
    \/ retry_exhausted /\ UNCHANGED <<fvars, pvars>>
    \/ connect_tcp /\ UNCHANGED <<fvars, pvars>>
    \/ connect_registration /\ UNCHANGED <<fvars, pvars>>
    \/ connect_get_system_info /\ UNCHANGED <<fvars, pvars>>
    \/ timeout_next /\ UNCHANGED <<fvars, pvars>>
    \/ timeout_elapsed /\ UNCHANGED <<fvars, pvars>>
    \/ resume_after_ok /\ UNCHANGED <<fvars, pvars>>
    \/ resume_after_err /\ UNCHANGED <<fvars, pvars>>
    \/ write_packet /\ request_written /\ UNCHANGED <<wvars, fvars>>
    \/ read_ack /\ UNCHANGED <<wvars, fvars, pvars>>
    \/ read_packet /\ UNCHANGED <<wvars, fvars, pvars>>
    \/ write_ack /\ UNCHANGED <<wvars, fvars, pvars>>
    \/ end_of_stream /\ UNCHANGED <<wvars, fvars, pvars>>

HandoverSpec == HandoverInit /\ [][HandoverNext]_vars

-----------------------------------------------------------------------------
(* PacketWriter::read_packet on a byte source: zvt/src/logging.rs          *)

\* The byte values the source delivers: small lengths and the 0xff marker.
SourceBytes == {0, 1, 2, 255}

\* All sequences over S of length 0..n.
SeqsUpTo(S, n) == UNION { [1..k -> S] : k \in 0..n }

\* The rest of a sequence from index i on.
From(s, i) == SubSeq(s, i, Len(s))

\* AsyncReadExt::read_exact: n bytes, or an error at an early end of the
\* source, whose remaining bytes are then used up.
read_exact(source, n) ==
    IF Len(source) >= n
    THEN [ok |-> TRUE, bytes |-> SubSeq(source, 1, n), rest |-> From(source, n + 1)]
    ELSE [ok |-> FALSE, bytes |-> << >>, rest |-> << >>]

\* u16::from_be_bytes in the place of from_le_bytes.
from_le_bytes_BigEndian(b) == b[1] * 256 + b[2]

\* u16::from_le_bytes
from_le_bytes(b) == b[1] + b[2] * 256

\* What read_packet returned, the source it was called on and what is left
\* of the source.
ReadResult(ok, buf, source, rest) ==
    [ok |-> ok, buf |-> buf, source |-> source, rest |-> rest]

\* The payload read after a header of 3 or 5 bytes.
read_payload(header, length, source, rest) ==
    LET body == read_exact(rest, length)
    IN  IF body.ok
        THEN ReadResult(TRUE, header \o body.bytes, source, body.rest)
        ELSE ReadResult(FALSE, << >>, source, body.rest)

\* PacketWriter::read_packet
read_packet_bytes(source) ==
    LET head == read_exact(source, 3)
    IN  IF ~head.ok
        THEN ReadResult(FALSE, << >>, source, head.rest)
        ELSE IF head.bytes[3] = 255
             THEN LET ext == read_exact(head.rest, 2)
                  IN  IF ~ext.ok
                      THEN ReadResult(FALSE, << >>, source, ext.rest)
                      ELSE read_payload(head.bytes \o ext.bytes,
                                        from_le_bytes(ext.bytes), source, ext.rest)
             ELSE read_payload(head.bytes, head.bytes[3], source, head.rest)

\* One call of read_packet on what is left of the source; the caller stops
\* at the first failure.
read_packet_call ==
    /\ IF ret = << >> THEN TRUE ELSE ret[Len(ret)].ok
    /\ LET r == read_packet_bytes(arg)
       IN  /\ ret' = Append(ret, r)
           /\ arg' = r.rest

\* No dialog runs and no controller exists: only functions are applied.
NoDriver ==
    /\ transactions = {}
    /\ transactions_max_num = 0
    /\ terminal_id = << >>
    /\ eod_due = FALSE
    /\ successfully_configured = FALSE
    /\ result = ""
    /\ calls = << >>
    /\ seen = << >>
    /\ eod = {}
    /\ before = ""
    /\ dialog = "Registration"
    /\ pc = "Dropped"
    /\ polled = FALSE
    /\ packet = ""
    /\ item = NoItem
    /\ wire = << >>
    /\ events = << >>
    /\ seq = dialog
    /\ inner = "none"
    /\ rpc = "Unused"
    /\ retry = 0
    /\ n_ticks = 0
    /\ is_err = FALSE
    /\ wpolled = FALSE
    /\ witem = NoItem
    /\ out = << >>
    /\ hist = << >>

\* A PacketWriter on a source that delivers some bytes and then ends.
ReadInit ==
    /\ arg \in SeqsUpTo(SourceBytes, MaxSource)
    /\ ret = << >>
    /\ NoDriver

ReadNext == read_packet_call /\ UNCHANGED <<svars, wvars, fvars>>

ReadSpec == ReadInit /\ [][ReadNext]_vars

-----------------------------------------------------------------------------
(* The length codecs: zvt_builder/src/length.rs                            *)

\* u8::MAX as usize
U8_MAX == 255

\* u16::MAX as usize
U16_MAX == 65535

\* What serialize or deserialize of a length codec gives: the bytes written,
\* or the length read and the bytes that remain; a panic or a ZVTError.
LengthOk(length, bytes) ==
    [ok |-> TRUE, len |-> length, bytes |-> bytes, err |-> ""]

LengthErr(e) == [ok |-> FALSE, len |-> 0, bytes |-> << >>, err |-> e]

\* vec![0; n]
Zeros(n) == [i \in 1..n |-> 0]

\* Empty::serialize
Empty_serialize(n) == LengthOk(n, << >>)

\* Empty::deserialize
Empty_deserialize(bytes) == LengthOk(Len(bytes), bytes)

\* Fixed<N>::serialize: N - len underflows for len > N.
Fixed_serialize(N, n) ==
    IF n > N THEN LengthErr("panic") ELSE LengthOk(n, Zeros(N - n))

\* Fixed<N>::deserialize
Fixed_deserialize(N, data) ==
    IF Len(data) < N THEN LengthErr("IncompleteData") ELSE LengthOk(N, data)

\* u16::to_le_bytes in the place of to_be_bytes.
to_be_bytes_LittleEndian(n) == <<n % 256, (n \div 256) % 256>>

\* (len as u16).to_be_bytes()
to_be_bytes(n) == <<(n \div 256) % 256, n % 256>>

\* u16::from_be_bytes
from_be_bytes(b) == b[1] * 256 + b[2]

\* Tlv::serialize
Tlv_serialize(n) ==
    CASE n \in 0..127 -> LengthOk(n, <<n>>)
      [] n \in 128..U8_MAX -> LengthOk(n, <<129, n>>)
      [] n \in 256..U16_MAX -> LengthOk(n, <<130>> \o to_be_bytes(n))
      [] OTHER -> LengthErr("panic")

\* Tlv::deserialize; data[1..3] panics on fewer than three bytes.
Tlv_deserialize(data) ==
    IF data = << >> THEN LengthErr("IncompleteData")
    ELSE CASE data[1] \in 0..127 -> LengthOk(data[1], From(data, 2))
           [] data[1] = 129 ->
                IF Len(data) >= 2
                THEN LengthOk(data[2], From(data, 3))
                ELSE LengthErr("IncompleteData")
           [] data[1] = 130 ->
                IF Len(data) >= 3
                THEN LengthOk(from_be_bytes(SubSeq(data, 2, 3)), From(data, 4))
                ELSE LengthErr("panic")
           [] OTHER -> LengthErr("NonImplemented")

RECURSIVE Digits(_, _)
\* The loop of LlvImpl<N>::serialize: the N low decimal digits of k.
Digits(N, k) ==
    IF N = 0 THEN << >> ELSE Append(Digits(N - 1, k \div 10), k % 10)

\* LlvImpl<N>::serialize that writes the digits low digit first.
LlvImpl_serialize_Reversed(N, input) ==
    LengthOk(input, [i \in 1..N |-> Digits(N, input)[N + 1 - i]])

\* LlvImpl<N>::serialize
LlvImpl_serialize(N, input) == LengthOk(input, Digits(N, input))

RECURSIVE Decimal(_, _)
\* The loop of LlvImpl<N>::deserialize over the first i bytes: rv * 10 + d.
Decimal(data, i) ==
    IF i = 0 THEN 0 ELSE Decimal(data, i - 1) * 10 + (data[i] % 16)

\* LlvImpl<N>::deserialize
LlvImpl_deserialize(N, data) ==
    IF Len(data) < N
    THEN LengthErr("IncompleteData")
    ELSE LengthOk(Decimal(data, N), From(data, N + 1))

\* encoding::Default::encode of a u16: two bytes, low byte first.
encode_u16(n) == <<n % 256, (n \div 256) % 256>>

\* encoding::Default::decode of a u16.
decode_u16(data) ==
    IF Len(data) < 2
    THEN LengthErr("IncompleteData")
    ELSE LengthOk(data[1] + data[2] * 256, From(data, 3))

\* Adpu::serialize; input as u16 keeps the low 16 bits.
Adpu_serialize(input) ==
    IF input < 255
    THEN LengthOk(input, <<input>>)
    ELSE LengthOk(input, <<255>> \o encode_u16(input % 65536))

\* Adpu::deserialize
Adpu_deserialize(data) ==
    IF data = << >> THEN LengthErr("IncompleteData")
    ELSE IF data[1] = 255 THEN decode_u16(From(data, 2))
    ELSE LengthOk(data[1], From(data, 2))

\* The implementations of the trait Length; Llv and Lllv are LlvImpl<2> and
\* LlvImpl<3>, and Fixed is used with several N.
Empty == [name |-> "Empty", N |-> 0]
Fixed(N) == [name |-> "Fixed", N |-> N]
Tlv == [name |-> "Tlv", N |-> 0]
Llv == [name |-> "LlvImpl", N |-> 2]
Lllv == [name |-> "LlvImpl", N |-> 3]
Adpu == [name |-> "Adpu", N |-> 0]

FixedSizes == {1, 2, 3}

\* The codecs that write the length and those that leave it to the payload.
Encoding == {Tlv, Llv, Lllv, Adpu}
Framing == {Empty} \cup { Fixed(N) : N \in FixedSizes }

\* L::serialize(len)
serialize(L, n) ==
    CASE L.name = "Empty" -> Empty_serialize(n)
      [] L.name = "Fixed" -> Fixed_serialize(L.N, n)
      [] L.name = "Tlv" -> Tlv_serialize(n)
      [] L.name = "LlvImpl" -> LlvImpl_serialize(L.N, n)
      [] OTHER -> Adpu_serialize(n)

\* L::deserialize(bytes)
deserialize(L, bytes) ==
    CASE L.name = "Empty" -> Empty_deserialize(bytes)
      [] L.name = "Fixed" -> Fixed_deserialize(L.N, bytes)
      [] L.name = "Tlv" -> Tlv_deserialize(bytes)
      [] L.name = "LlvImpl" -> LlvImpl_deserialize(L.N, bytes)
      [] OTHER -> Adpu_deserialize(bytes)

\* A payload of n bytes.
Payload(n) == [i \in 1..n |-> 7]

\* The lengths serialized with each codec, with what follows the length on
\* the wire: nothing, or for a framing codec the payload of that length.
LengthInputs ==
    { [op |-> "serialize", L |-> L, n |-> n, bytes |-> << >>] :
          L \in Encoding, n \in 0..MaxLength }
    \cup { [op |-> "serialize", L |-> L, n |-> n, bytes |-> << >>] :
          L \in Framing, n \in 0..MaxPayload }
    \cup { [op |-> "serialize", L |-> L, n |-> n, bytes |-> Payload(n)] :
          L \in Framing, n \in 0..MaxPayload }

\* The inputs of deserialize alone: every leading byte, followed by up to
\* two bytes.
DeserializeInputs ==
    { [op |-> "deserialize", L |-> L, n |-> 0, bytes |-> b] :
          L \in Encoding \cup Framing,
          b \in {<< >>} \cup { <<d>> \o t : d \in 0..U8_MAX,
                                            t \in SeqsUpTo({0, 1, 255}, 2) } }

\* L::serialize(payload.len()) of serialize_tagged.
length_serialize ==
    /\ arg.op = "serialize"
    /\ ret = << >>
    /\ ret' = <<serialize(arg.L, arg.n)>>
    /\ UNCHANGED arg

\* L::deserialize(bytes) of deserialize_tagged, on the length written
\* followed by the payload, or on the given bytes.
length_deserialize ==
    /\ IF arg.op = "serialize"
       THEN /\ Len(ret) = 1
            /\ ret[1].ok
            /\ ret' = Append(ret, deserialize(arg.L, ret[1].bytes \o arg.bytes))
       ELSE /\ ret = << >>
            /\ ret' = <<deserialize(arg.L, arg.bytes)>>
    /\ UNCHANGED arg

LengthInit ==
    /\ arg \in LengthInputs \cup DeserializeInputs
    /\ ret = << >>
    /\ NoDriver

LengthNext ==
    \/ length_serialize /\ UNCHANGED <<svars, wvars, fvars>>
    \/ length_deserialize /\ UNCHANGED <<svars, wvars, fvars>>

LengthSpec == LengthInit /\ [][LengthNext]_vars

-----------------------------------------------------------------------------
(* The derived decode of a struct: zvt_derive/src/lib.rs                   *)

\* The tagged fields of the struct decoded: Bar of zvt/tests/derive.rs
\* (c: u16 under 1, d: Option<u32> under 2, b: Option<u32> under 3), a
\* Vec field under 4 and a second required field under 5.
RequiredTags == {1, 5}
OptionalTags == {2, 3}
RepeatedTags == {4}
StructTags == RequiredTags \cup OptionalTags \cup RepeatedTags

\* A tag no field of the struct has.
UnknownTag == 9

\* Bytes from which encoding::Default::decode reads no tag.
NoTag == 0

\* The input behind the positional fields, element by element: the tag and
\* whether the field's deserialize_tagged succeeds on what follows the tag.
TaggedElements ==
    [tag : StructTags, ok : BOOLEAN]
        \cup { [tag |-> UnknownTag, ok |-> TRUE], [tag |-> NoTag, ok |-> FALSE] }

\* ZVTResult of decode: the remainder, or the error with its tags.
DecodeOk(bytes) == [ok |-> TRUE, err |-> "", tags |-> << >>, rest |-> bytes]

DecodeErr(e, tags) == [ok |-> FALSE, err |-> e, tags |-> tags, rest |-> << >>]

RECURSIVE sorted_Descending(_)
\* The tags in descending order, one of the orders in which a HashSet hands
\* out its elements.
sorted_Descending(tags) ==
    IF tags = {} THEN << >>
    ELSE LET most == CHOOSE t \in tags : \A u \in tags : u <= t
         IN  <<most>> \o sorted_Descending(tags \ {most})

RECURSIVE sorted(_)
\* as_vec.sort_by_key(|t| t.0)
sorted(tags) ==
    IF tags = {} THEN << >>
    ELSE LET least == CHOOSE t \in tags : \A u \in tags : t <= u
         IN  <<least>> \o sorted(tags \ {least})

\* The end of decode: if !required_tags.is_empty() MissingRequiredTags,
\* else the struct and the bytes that remain.
decode_end(bytes, required_tags) ==
    IF required_tags # {}
    THEN DecodeErr("MissingRequiredTags", sorted(required_tags))
    ELSE DecodeOk(bytes)

RECURSIVE elements(_, _)
\* Vec::deserialize_tagged: the elements under the tag it takes one after
\* the other until one fails.
elements(bytes, tag) ==
    IF bytes # << >> /\ bytes[1].tag = tag /\ bytes[1].ok
    THEN 1 + elements(Tail(bytes), tag)
    ELSE 0

\* A HashSet::insert that always reports a new element.
insert_tag_Always(actual_tags, number) == TRUE

\* actual_tags.insert(#number): whether the tag was new.
insert_tag(actual_tags, number) == number \notin actual_tags

RECURSIVE decode_loop(_, _, _)
\* while !bytes.is_empty() && curr_len != bytes.len(), with the match arm of
\* derive_deserialize_field_tagged for each tagged field.
decode_loop(bytes, required_tags, actual_tags) ==
    IF bytes = << >> THEN decode_end(bytes, required_tags)
    ELSE LET tag == bytes[1].tag
             required == required_tags \ {tag}
             actual == actual_tags \cup {tag}
         IN  IF tag \notin StructTags THEN decode_end(bytes, required_tags)
             ELSE IF ~insert_tag(actual_tags, tag)
             THEN DecodeErr("DuplicateTag", <<tag>>)
             ELSE IF tag \in RepeatedTags
             THEN IF elements(bytes, tag) = 0
                  THEN decode_end(bytes, required)
                  ELSE decode_loop(From(bytes, elements(bytes, tag) + 1),
                                   required, actual)
             ELSE IF ~bytes[1].ok THEN DecodeErr("IncompleteData", << >>)
             ELSE decode_loop(Tail(bytes), required, actual)

\* decode, behind the positional fields.
decode(bytes) == decode_loop(bytes, RequiredTags, {})

\* One call of decode on the input.
decode_call ==
    /\ ret = << >>
    /\ ret' = <<decode(arg)>>
    /\ UNCHANGED arg

DecodeInit ==
    /\ arg \in SeqsUpTo(TaggedElements, MaxFields)
    /\ ret = << >>
    /\ NoDriver

DecodeNext == decode_call /\ UNCHANGED <<svars, wvars, fvars>>

DecodeSpec == DecodeInit /\ [][DecodeNext]_vars

-----------------------------------------------------------------------------
(* A repeated field: Vec<T>::deserialize_tagged, zvt_builder/src/lib.rs    *)

\* The tag of the repeated field, and the bytes of its input: the tag,
\* other tags, short lengths and the leading byte 0x82 of a long length.
VecTag == 1
VecBytes == {0, 1, 2, 130}

\* What E::decode does with the payload of an element: it fails, or it
\* leaves so many of the payload's bytes as its remainder.
DecodeFails == -1
Decoded == {DecodeFails, 0, 1}

\* ZVTResult of deserialize_tagged: the remainder, or the error; a panic.
TaggedOk(bytes) == [ok |-> TRUE, err |-> "", rest |-> bytes]

TaggedErr(e) == [ok |-> FALSE, err |-> e, rest |-> << >>]

\* TE::decode of a TLV tag: two bytes when the low five bits of the first
\* are all ones, one byte otherwise.
decode_tag(bytes) ==
    IF bytes = << >> THEN [ok |-> FALSE, tag |-> 0, rest |-> << >>]
    ELSE IF bytes[1] % 32 = 31
    THEN IF Len(bytes) < 2 THEN [ok |-> FALSE, tag |-> 0, rest |-> << >>]
         ELSE [ok |-> TRUE, tag |-> bytes[1] * 256 + bytes[2],
               rest |-> From(bytes, 3)]
    ELSE [ok |-> TRUE, tag |-> bytes[1], rest |-> Tail(bytes)]

\* ZvtSerializerImpl::deserialize_tagged with Some(tag): the tag, the
\* length, then E::decode on the payload of that length.
deserialize_tagged(L, bytes, tag, decoded) ==
    LET t == decode_tag(bytes)
        l == deserialize(L, t.rest)
    IN  IF ~t.ok THEN TaggedErr("IncompleteData")
        ELSE IF t.tag # tag THEN TaggedErr("WrongTag")
        ELSE IF ~l.ok THEN TaggedErr(l.err)
        ELSE IF l.len > Len(l.bytes) THEN TaggedErr("IncompleteData")
        ELSE IF decoded = DecodeFails THEN TaggedErr("NonImplemented")
        ELSE TaggedOk(From(l.bytes, l.len - decoded + 1))

\* Whether E::decode can leave that many bytes of the element at the head
\* of the input.
Decodes(L, bytes, decoded) ==
    LET t == decode_tag(bytes)
        l == deserialize(L, t.rest)
    IN  (t.ok /\ l.ok /\ decoded # DecodeFails) => decoded <= l.len

\* while let Ok(..): the loop is entered while no element has failed.
vec_continues == IF ret = << >> THEN TRUE ELSE ret[Len(ret)].ok

\* One turn of the loop of Vec::deserialize_tagged: the next element is
\* deserialized; it is pushed and the input advances, or the loop ends and
\* the items are returned with the input as it stands. A panic of the
\* element's deserialization is the panic of the call.
vec_attempt ==
    /\ vec_continues
    /\ Len(ret) <= MaxSource + 1
    /\ \E decoded \in Decoded :
          /\ Decodes(Tlv, arg, decoded)
          /\ LET r == deserialize_tagged(Tlv, arg, VecTag, decoded)
                 bytes == IF r.ok THEN r.rest ELSE arg
             IN  /\ arg' = bytes
                 /\ ret' = Append(ret,
                        [ok |-> r.ok,
                         before |-> Len(arg),
                         after |-> Len(bytes),
                         vec |-> IF r.ok THEN ""
                                 ELSE IF r.err = "panic" THEN "panic"
                                 ELSE "Ok"])

VecInit ==
    /\ arg \in SeqsUpTo(VecBytes, MaxSource)
    /\ ret = << >>
    /\ NoDriver

VecNext == vec_attempt /\ UNCHANGED <<svars, wvars, fvars>>

VecSpec == VecInit /\ [][VecNext]_vars

-----------------------------------------------------------------------------
(* The timeout of read_card: zvt_feig_terminal/src/feig.rs                 *)

\* a + b on u8: the sum; on overflow a panic where overflow checks are
\* compiled in, the sum modulo 256 where they are not.
add_u8(a, b) ==
    IF a + b > U8_MAX
    THEN { [ok |-> FALSE, val |-> 0], [ok |-> TRUE, val |-> (a + b) % 256] }
    ELSE { [ok |-> TRUE, val |-> a + b] }

\* Feig::read_card up to the start of its stream: the timeout handed to
\* into_stream_with_retry, Duration::from_secs((timeout_sec + 2) as u64).
read_card_timeout ==
    /\ ret = << >>
    /\ \E secs \in add_u8(arg, 2) : ret' = <<secs>>
    /\ UNCHANGED arg

\* feig_config.read_card_timeout: any u8.
TimeoutInit ==
    /\ arg \in 0..U8_MAX
    /\ ret = << >>
    /\ NoDriver

TimeoutNext == read_card_timeout /\ UNCHANGED <<svars, wvars, fvars>>

TimeoutSpec == TimeoutInit /\ [][TimeoutNext]_vars

-----------------------------------------------------------------------------
(* The firmware transfer: WriteFile::into_stream, zvt/src/feig/sequences.rs *)

\* What the update directory may hold: two of the valid_paths of convert_dir
\* and a file that is none of them.
Paths == {"firmware/kernel.gz", "app0/update.spec", "readme.txt"}

\* valid_paths: the file id of a path.
valid_paths(p) ==
    CASE p = "firmware/kernel.gz" -> Some(16)
      [] p = "app0/update.spec" -> Some(32)
      [] OTHER -> None

\* The HashMap convert_dir collects: the ids of the valid paths that exist.
found(dir) == UNION { valid_paths(p) : p \in dir }

\* A convert_dir without the check for an empty map.
convert_dir_AcceptsEmpty(dir) == [kind |-> "ok", val |-> found(dir)]

\* convert_dir: InvalidData when the directory holds no valid path.
convert_dir(dir) ==
    IF found(dir) = {}
    THEN [kind |-> "err", val |-> {}]
    ELSE [kind |-> "ok", val |-> found(dir)]

\* A lookup that finds every id.
files_get_Any(files, file_id) == Some(file_id)

\* files.get(file_id)
files_get(files, file_id) == IF file_id \in files THEN Some(file_id) ELSE None

\* feig::packets::WriteFile, 08 14, with the (file_id, size) list.
WriteFilePacket(files) ==
    [class |-> 8, instr |-> 20, body |-> "ok", files |-> files]

\* feig::packets::WriteData, 80 00, with file_id, file_offset and payload.
WriteDataPacket(file_id, file_offset) ==
    [class |-> 128, instr |-> 0, body |-> "ok", file_id |-> file_id,
     file_offset |-> file_offset]

\* feig::packets::RequestForData, 04 0C: tlv, tlv.file, and the file's
\* file_id and file_offset, each an Option.
RequestForDataFrame(tlv, file, file_id, file_offset) ==
    [class |-> 4, instr |-> 12, body |-> "ok", tlv |-> tlv, file |-> file,
     file_id |-> file_id, file_offset |-> file_offset]

\* The file ids and offsets the terminal asks for; 48 is never announced.
RequestedIds == {16, 32, 48}

RequestedOffsets == {0}

RequestsForData ==
    { RequestForDataFrame(FALSE, FALSE, None, None),
      RequestForDataFrame(TRUE, FALSE, None, None) }
    \cup { RequestForDataFrame(TRUE, TRUE, i, o) :
              i \in {None} \cup { Some(x) : x \in RequestedIds },
              o \in {None} \cup { Some(x) : x \in RequestedOffsets } }

\* What the terminal may send during the transfer.
WriteFileFrames == { f \in Frames : <<f.class, f.instr>> # <<4, 12>> \/ f.body = "bad" }
                       \cup RequestsForData

RequestForData == Variant(4, 12, "RequestForData", TRUE)

\* enum WriteFileResponse
WriteFileResponse == << CompletionData, RequestForData, Abort >>

\* The chain of ok_or(ZVTError::IncompleteData)? on the request and the
\* lookup of the file: the file id to send, or None.
requested_file(files, data) ==
    IF ~data.tlv \/ ~data.file \/ data.file_id = None \/ data.file_offset = None
    THEN None
    ELSE files_get(files, unwrap(data.file_id))

\* convert_dir, the size of each file, and write_packet of the WriteFile
\* packet (write_packet_with_ack, first half).
write_file_packet ==
    /\ polled
    /\ pc = "Created"
    /\ LET files == convert_dir(arg.dir)
       IN  IF files.kind = "err"
           THEN Throw("InvalidData", wire)
           ELSE \/ /\ wire' = Append(wire, Written(WriteFilePacket(files.val)))
                   /\ pc' = "AwaitAck"
                   /\ UNCHANGED <<dialog, polled, packet, item, events>>
                \/ Throw("Failed to write", wire)
                \/ Throw("No such file", wire)
    /\ UNCHANGED pvars

\* src.read_packet(), WriteFileResponse::zvt_parse, and for RequestForData
\* the unwrapping of the request and the read of the file.
write_file_read ==
    /\ polled
    /\ pc = "ReadPacket"
    /\ \/ /\ Cardinality(Reads(wire)) < MaxFrames
          /\ \E f \in WriteFileFrames :
                LET r == zvt_parse(WriteFileResponse, f)
                    w == Append(wire, Read(f))
                IN  IF r.kind = "err" THEN Throw(r.val, w)
                    ELSE IF r.val # "RequestForData"
                    THEN /\ wire' = w
                         /\ packet' = r.val
                         /\ pc' = "WriteAck"
                         /\ UNCHANGED <<dialog, polled, item, events>>
                    ELSE IF requested_file(convert_dir(arg.dir).val, f) = None
                    THEN Throw("IncompleteData", w)
                    ELSE \/ /\ wire' = w
                            /\ packet' = r.val
                            /\ pc' = "WriteData"
                            /\ UNCHANGED <<dialog, polled, item, events>>
                         \/ Throw("No such file", w)
       \/ Throw("UnexpectedEof", wire)
    /\ UNCHANGED pvars

\* The CompletionData and Abort arms: write the Ack, yield, break.
write_file_ack ==
    /\ polled
    /\ pc = "WriteAck"
    /\ \/ /\ Yield(Ok(packet), Append(wire, Written(AckFrame)), "Break")
          /\ UNCHANGED <<dialog, packet>>
       \/ Throw("Failed to write", wire)
    /\ UNCHANGED pvars

\* A RequestForData arm that yields without sending the data.
write_data_NoData ==
    /\ polled
    /\ pc = "WriteData"
    /\ Yield(Ok(packet), wire, "ReadPacket")
    /\ UNCHANGED <<dialog, packet>>
    /\ UNCHANGED pvars

\* The RequestForData arm: src.write_packet(&packet) of the WriteData, then
\* yield response, and the loop goes on.
write_data ==
    /\ polled
    /\ pc = "WriteData"
    /\ LET data == wire[Len(wire)].frame
       IN  \/ /\ Yield(Ok(packet),
                       Append(wire, Written(WriteDataPacket(data.file_id,
                                                            data.file_offset))),
                       "ReadPacket")
              /\ UNCHANGED <<dialog, packet>>
           \/ Throw("Failed to write", wire)
    /\ UNCHANGED pvars

\* No controller and no wrapper: the stream is driven directly.
StreamOnly ==
    /\ transactions = {}
    /\ transactions_max_num = 0
    /\ terminal_id = << >>
    /\ eod_due = FALSE
    /\ successfully_configured = FALSE
    /\ result = ""
    /\ calls = << >>
    /\ seen = << >>
    /\ eod = {}
    /\ before = ""
    /\ seq = dialog
    /\ inner = "some"
    /\ rpc = "Unused"
    /\ retry = 0
    /\ n_ticks = 0
    /\ is_err = FALSE
    /\ wpolled = FALSE
    /\ witem = NoItem
    /\ out = << >>
    /\ hist = << >>

\* WriteFile::into_stream(path, password, adpu_size, src) on a live
\* transport, for each content of the directory.
WriteFileInit ==
    /\ arg \in [dir : SUBSET Paths]
    /\ ret = << >>
    /\ dialog = "WriteFile"
    /\ pc = "Created"
    /\ polled = FALSE
    /\ packet = ""
    /\ item = NoItem
    /\ wire = << >>
    /\ events = << >>
    /\ StreamOnly

WriteFileNext ==
    \/ stream_next /\ UNCHANGED <<wvars, fvars, pvars>>
    \/ write_file_packet /\ UNCHANGED <<wvars, fvars>>
    \/ read_ack /\ UNCHANGED <<wvars, fvars, pvars>>
    \/ write_file_read /\ UNCHANGED <<wvars, fvars>>
    \/ write_file_ack /\ UNCHANGED <<wvars, fvars>>
    \/ write_data /\ UNCHANGED <<wvars, fvars>>
    \/ end_of_stream /\ UNCHANGED <<wvars, fvars, pvars>>

WriteFileSpec == WriteFileInit /\ [][WriteFileNext]_vars

-----------------------------------------------------------------------------
(* Properties of the dialog streams                                        *)

\* The n-th frame the stream has read, the Ack of the request being the 0th.
NthRead(w, n) ==
    CHOOSE i \in Reads(w) : Cardinality({ j \in Reads(w) : j < i }) = n

ResponseReads(w) == { i \in Reads(w) : \E j \in Reads(w) : j < i }

OkEvents == { n \in 1..Len(events) : events[n].kind = "ok" }

IsAck(frame) == frame.class = 128 /\ frame.instr = 0

\* The terminal events of each dialog as the dialog table states them; a
\* single-shot dialog ends on whatever its first event is.
TerminalEvents(d) ==
    CASE d = "ReadCard" -> {"StatusInformation", "Abort"}
      [] d \in {"Initialization", "Diagnosis", "Reservation", "EndOfDay"} ->
            {"CompletionData", "Abort"}
      [] d \in {"PartialReversal", "PreAuthReversal"} ->
            {"CompletionData", "PartialReversalAbort"}
      [] d \in {"PrintSystemConfiguration", "StatusEnquiry"} -> {"CompletionData"}
      [] OTHER ->
            {"CompletionData", "Abort",
             "CVendFunctionsEnhancedSystemInformationCompletion"}

\* C1: in every sequence stream an Ack frame (80 00 00) is written after each
\* response frame before the next frame is read, and the Ack for a frame is
\* written before that frame's event is yielded.
C1_AckBetweenReads ==
    /\ \A i, j \in ResponseReads(wire) :
          i < j => \E k \in (i + 1)..(j - 1) : wire[k] = Written(AckFrame)
    /\ \A n \in OkEvents :
          /\ Cardinality(ResponseReads(wire)) >= n
          /\ events[n].at > NthRead(wire, n)
          /\ \E k \in (NthRead(wire, n) + 1)..events[n].at :
                wire[k] = Written(AckFrame)

\* Two response frames were read, acknowledged and yielded.
C1_Witness ==
    /\ Len(events) >= 2
    /\ events[1].kind = "ok"
    /\ events[2].kind = "ok"
    /\ Cardinality(ResponseReads(wire)) >= 2

\* C2: after writing its request a sequence reads exactly one frame and
\* requires it to parse as Ack before it reads any application response; on
\* any other frame it yields an error and ends without yielding any event.
C2_AckAfterRequest ==
    /\ Len(wire) >= 1 => wire[1] = Written(Input(dialog))
    /\ Len(wire) >= 2 => wire[2].op = "read"
    /\ Len(wire) >= 3 => IsAck(wire[2].frame)
    /\ (Len(wire) >= 2 /\ ~IsAck(wire[2].frame)) =>
          /\ Len(wire) = 2
          /\ pc = "Done"
          /\ Len(events) = 1
          /\ events[1].kind = "err"
          /\ item.kind \in {"err", "pending", "end"}

\* The request was answered by a Nack and the stream has ended.
C2_Witness ==
    /\ Len(wire) = 2
    /\ wire[2].op = "read"
    /\ wire[2].frame.class = 132
    /\ item = End

\* C3: after the terminal event is yielded no further events are produced,
\* no further frame is read or written, and the last operation on the
\* transport is the Ack for the terminal frame.
C3_NothingAfterTerminal ==
    \A n \in OkEvents :
        events[n].val \in TerminalEvents(dialog) =>
            /\ n = Len(events)
            /\ pc \in {"Break", "Done"}
            /\ item \in {Ok(events[n].val), Pending, End}
            /\ Len(wire) = events[n].at
            /\ wire[Len(wire)] = Written(AckFrame)
            /\ wire[Len(wire) - 1].op = "read"
            /\ zvt_parse(Output(dialog), wire[Len(wire) - 1].frame)
                   = Ok(events[n].val)

\* An EndOfDay stream has yielded its terminal event and returned None.
C3_Witness ==
    /\ dialog = "EndOfDay"
    /\ item = End
    /\ Len(events) >= 2
    /\ events[Len(events)].kind = "ok"

\* C4: the i-th yielded event is the parse of the i-th response frame read
\* after the initial Ack; no frame is dropped, duplicated or reordered.
C4_WireOrder ==
    /\ \A n \in OkEvents :
          /\ n \in 1..Cardinality(ResponseReads(wire))
          /\ Ok(events[n].val)
                 = zvt_parse(Output(dialog), wire[NthRead(wire, n)].frame)
          /\ NthRead(wire, n) < events[n].at
          /\ n > 1 => events[n - 1].at < NthRead(wire, n)
    /\ \A m \in 1..(Cardinality(ResponseReads(wire)) - 1) : m \in OkEvents

\* Two different events were yielded for two different frames.
C4_Witness ==
    /\ Len(events) >= 2
    /\ events[1].kind = "ok"
    /\ events[2].kind = "ok"
    /\ events[1].val # events[2].val

\* C5: each dialog ends on exactly its terminal events and on no other event;
\* any other parsed event is yielded and the loop goes on to read the next
\* frame.
C5_EndsOnTerminal ==
    \A n \in OkEvents :
        /\ n < Len(events) => events[n].val \notin TerminalEvents(dialog)
        /\ n = Len(events) =>
              IF events[n].val \in TerminalEvents(dialog)
              THEN pc \in {"Break", "Done"}
              ELSE pc \in {"ReadPacket", "WriteAck"}

\* ReadCard went on after IntermediateStatusInformation and ended on
\* StatusInformation.
C5_Witness ==
    /\ dialog = "ReadCard"
    /\ Len(events) = 2
    /\ events[1] = [kind |-> "ok", val |-> "IntermediateStatusInformation", at |-> 4]
    /\ events[2].val = "StatusInformation"
    /\ item = End

-----------------------------------------------------------------------------
(* Properties of the reconnecting wrapper                                  *)

Attempts == DOMAIN hist

\* The positions in the wrapper's output of the items of attempt a.
ItemsOf(a) == { i \in DOMAIN out : out[i].attempt = a }

ErrItemsOf(a) == { i \in ItemsOf(a) : out[i].kind = "err" }

\* Attempt a is over: a later one began, or the wrapper is between attempts
\* or has returned.
Over(a) == a < Len(hist) \/ rpc \in {"Loop", "Done"}

\* src.inner as the attempt after a found it, or as it is now when a is the
\* last attempt.
InnerAfter(a) ==
    IF a < Len(hist)
    THEN (IF hist[a + 1].had_inner THEN "some" ELSE "none")
    ELSE inner

\* C6: whenever the wrapped sequence yields an error the wrapper forwards
\* that error to the caller, stops that attempt, and sets the inner transport
\* to none before the next attempt starts; when the output stream ends after
\* a failed last attempt, inner is none.
C6_SequenceErrorDropsTransport ==
    /\ (rpc = "Break" /\ ~wpolled) => (witem = item /\ item.kind = "err")
    /\ rpc = "Break" =>
          (ErrItemsOf(ThisAttempt) # {} /\ hist[ThisAttempt].started)
    /\ \A a \in Attempts :
          (hist[a].started /\ ErrItemsOf(a) # {}) =>
              /\ Cardinality(ErrItemsOf(a)) = 1
              /\ \A i \in ErrItemsOf(a) : \A j \in ItemsOf(a) : j <= i
              /\ Over(a) => InnerAfter(a) = "none"
              /\ (a = Len(hist) /\ rpc = "Done") => inner = "none"

\* A sequence error was forwarded on a live transport and the next attempt
\* has begun.
C6_Witness ==
    /\ Len(hist) = 2
    /\ hist[1].had_inner
    /\ hist[1].started
    /\ ErrItemsOf(1) # {}
    /\ \E i \in ItemsOf(1) : out[i].kind = "ok"

\* C7 as stated: a wrapped sequence that does not produce its next item
\* within the timeout makes the wrapper yield one error to the caller for
\* that attempt and drop the inner transport.
C7_TimeoutYieldsError ==
    \A a \in Attempts :
        hist[a].timed_out =>
            /\ Cardinality(ErrItemsOf(a)) = 1
            /\ InnerAfter(a) = "none"

\* C7: a wrapped sequence that does not produce its next item within the
\* timeout makes the wrapper yield nothing for it: the attempt ends with the
\* items the sequence produced before, none of them an error, the inner
\* transport is set to none, and the wrapper goes on to the next retry tick,
\* ending its output when there is none.
C7_TimeoutDropsTransport ==
    /\ \A a \in Attempts :
          hist[a].timed_out =>
              /\ hist[a].started
              /\ ErrItemsOf(a) = {}
              /\ Over(a)
              /\ InnerAfter(a) = "none"
    /\ (Len(hist) > 0 /\ hist[Len(hist)].timed_out /\ rpc = "Loop") =>
          (is_err /\ pc = "Dropped" /\ wpolled /\ witem = Pending)
    /\ (Len(hist) > 0 /\ hist[Len(hist)].timed_out /\ rpc = "Done") =>
          (witem = End /\ retry = 0)

\* An attempt forwarded an event, then timed out, and the next attempt has
\* begun with a reconnect.
C7_Witness ==
    /\ Len(hist) = 2
    /\ hist[1].timed_out
    /\ ItemsOf(1) # {}
    /\ hist[2].connect # "no"

\* C8: with a retry stream of N ticks one call of the wrapper makes at most
\* N attempts: connect is invoked at most N times, the wrapped sequence is
\* started at most N times, and once the ticks are exhausted the output
\* stream ends even if every attempt failed.
C8_AtMostNAttempts ==
    /\ Len(hist) + retry = n_ticks
    /\ Cardinality({ a \in Attempts : hist[a].connect # "no" }) <= n_ticks
    /\ Cardinality({ a \in Attempts : hist[a].started }) <= n_ticks
    /\ (rpc = "Loop" /\ retry = 0) =>
          /\ ~ENABLED retry_next
          /\ wpolled => ENABLED retry_exhausted
    /\ rpc = "Done" => (witem = End /\ ~wpolled /\ ~ENABLED caller_next)

\* Every tick was used by an attempt that failed, and the output has ended.
C8_Witness ==
    /\ n_ticks = MaxTicks
    /\ Len(hist) = MaxTicks
    /\ \A a \in Attempts : ErrItemsOf(a) # {} \/ hist[a].timed_out
    /\ \E a \in Attempts : hist[a].connect = "err"
    /\ \E a \in Attempts : hist[a].started
    /\ rpc = "Done"

\* C9: at the start of an attempt the wrapper calls connect if and only if
\* inner is none; with a live inner transport it starts the sequence directly
\* on it.  A failed connect yields the connect error, leaves inner none,
\* starts no sequence in that attempt and consumes one retry tick.
C9_ConnectIffNoTransport ==
    /\ \A a \in Attempts :
          /\ hist[a].connect # "no" <=> ~hist[a].had_inner
          /\ hist[a].had_inner => hist[a].started
          /\ hist[a].started <=> (hist[a].had_inner \/ hist[a].connect = "ok")
          /\ hist[a].connect = "called" =>
                (a = Len(hist) /\ inner = "none"
                 /\ rpc \in {"Connect", "Registration", "GetSystemInfo"})
          /\ hist[a].connect = "err" =>
                /\ ~hist[a].started
                /\ Cardinality(ItemsOf(a)) = 1
                /\ Cardinality(ErrItemsOf(a)) = 1
                /\ InnerAfter(a) = "none"
                /\ retry <= n_ticks - a
    /\ rpc \in {"Connect", "Registration", "GetSystemInfo"} =>
          (Len(hist) > 0 /\ hist[Len(hist)].connect = "called")
    /\ (Len(hist) > 0 /\ hist[Len(hist)].connect = "err" /\ ~wpolled
        /\ rpc = "Loop") => witem.kind = "err"

\* One attempt ran on the live transport, the next had to connect and the
\* connect failed.
C9_Witness ==
    /\ Len(hist) = 2
    /\ hist[1].had_inner
    /\ hist[2].connect = "err"
    /\ retry = n_ticks - 2

-----------------------------------------------------------------------------
(* Properties of the controller                                            *)

\* C10: after any sequence of begin_transaction, commit_transaction,
\* cancel_transaction, read_card and update_firmware calls, with any
\* outcomes, the transaction map holds at most one entry per token and never
\* more than transactions_max_num entries.
C10_TransactionsBounded ==
    /\ len(transactions) <= transactions_max_num
    /\ \A e1, e2 \in transactions : e1.token = e2.token => e1 = e2

\* The map is full, holds more than one transaction, and a further
\* begin_transaction was turned down.
C10_Witness ==
    /\ transactions_max_num = MaxTransactions
    /\ len(transactions) = transactions_max_num
    /\ len(transactions) > 1
    /\ result.op = "begin_transaction"
    /\ result.err = "ActiveTransaction"
    /\ ~contains_key(transactions, result.token)

\* The dialog an operation ran as its i-th ended with CompletionData.
Completed(i) ==
    /\ i <= Len(seen)
    /\ seen[i].last = Some(Event("CompletionData", None))

\* The operation that returned last put its token into the map.
Inserted ==
    /\ ~contains_key(before.transactions, result.token)
    /\ contains_key(transactions, result.token)

\* C11: begin_transaction inserts the token and returns Ok only if the
\* Reservation dialog ended with its CompletionData; when the dialog ends in
\* an Abort, in an error or without a terminal event, the token is not
\* inserted.
C11_InsertOnlyWhenCompleted ==
    result.op = "begin_transaction" /\ (result.ok \/ Inserted)
        => Completed(1)

\* begin_transaction returned Ok and inserted the token although the
\* Reservation dialog ended with an error item after a StatusInformation.
C11_Witness ==
    /\ result.op = "begin_transaction"
    /\ result.ok
    /\ Inserted
    /\ seen[1].last = Some(Failure)

\* The tokens that were in the map when the last operation was called and
\* are not in it now.
Left == { e.token : e \in { x \in before.transactions :
                              ~contains_key(transactions, x.token) } }

\* C12, as stated: a token leaves the transaction map only through
\* commit_transaction or cancel_transaction called with that token; no other
\* operation removes it.
C12_OnlyCommitOrCancelRemoves ==
    \A token \in Left :
        /\ result.op \in {"commit_transaction", "cancel_transaction"}
        /\ result.token = token

\* C12, amended: a token leaves the transaction map only through
\* commit_transaction or cancel_transaction called with that token, or
\* through an update_firmware whose end_of_day went past the terminal-id
\* check and so cleared the whole map; read_card, configure, reconnect,
\* begin_transaction and a commit or cancel of another token remove nothing.
C12_RemovedByCommitCancelOrEndOfDay ==
    \A token \in Left :
        \/ /\ result.op \in {"commit_transaction", "cancel_transaction"}
           /\ result.token = token
        \/ /\ result.op = "update_firmware"
           /\ eod # None
           /\ unwrap(eod).ran
           /\ transactions = {}

\* update_firmware was called with two transactions in the map and its
\* end_of_day wiped them.
C12_Witness ==
    /\ result.op = "update_firmware"
    /\ len(before.transactions) = 2
    /\ Left = { e.token : e \in before.transactions }

\* C13: whenever commit_transaction returns an error for a token that was in
\* the map, the token is still in the map afterwards with the same receipt
\* number and pre-authorization amount.
C13_FailedCommitKeepsToken ==
    /\ result.op = "commit_transaction"
    /\ ~result.ok
    /\ contains_key(before.transactions, result.token)
    => /\ contains_key(transactions, result.token)
       /\ get(transactions, result.token) =
              get(before.transactions, result.token)

\* A commit of one of two transactions failed because the PartialReversal
\* dialog ended with an abort, and both transactions are still in the map.
C13_Witness ==
    /\ result.op = "commit_transaction"
    /\ result.err = "Aborted"
    /\ contains_key(before.transactions, result.token)
    /\ len(before.transactions) = 2
    /\ transactions = before.transactions
    /\ calls # << >>

\* C14: when cancel_transaction returns an error for a known token, the
\* token has been removed from the map if and only if the PreAuthReversal
\* dialog completed with CompletionData.
C14_FailedCancelRemovesIffCompleted ==
    /\ result.op = "cancel_transaction"
    /\ ~result.ok
    /\ contains_key(before.transactions, result.token)
    => (~contains_key(transactions, result.token) <=> Completed(1))

\* A cancel of a known token failed because the PreAuthReversal dialog ended
\* with an abort, and the token is gone from the map.
C14_Witness ==
    /\ result.op = "cancel_transaction"
    /\ result.err = "Aborted"
    /\ eod = None
    /\ contains_key(before.transactions, result.token)
    /\ ~contains_key(transactions, result.token)
    /\ seen[1].last = Some(Event("PartialReversalAbort", None))

\* C15: commit_transaction(token, amount) for a token begun with
\* pre-authorization amount P sends a PartialReversal request that carries
\* the receipt number recorded for the token and the amount P - amount when
\* amount <= P, and 0 when amount > P.
C15_ReversalAmount ==
    /\ result.op = "commit_transaction"
    /\ contains_key(before.transactions, result.token)
    => LET transaction == get(before.transactions, result.token)
           P == transaction.pre_authorization_amount
           amount == unwrap(result.amount)
       IN  /\ calls # << >>
           /\ calls[1] =
                 Request("PartialReversal", result.token,
                         Some(transaction.receipt_no),
                         Some(IF amount <= P THEN P - amount ELSE 0))
           /\ \A i \in 2..Len(calls) :
                 calls[i].dialog = "PartialReversal"
                    => calls[i].receipt_no = Some(NoPendingReceipt)

\* A commit of more than the pre-authorized amount sent a reversal of 0 for
\* the receipt number 2 of the token.
C15_Witness ==
    /\ result.op = "commit_transaction"
    /\ result.ok
    /\ contains_key(before.transactions, result.token)
    /\ unwrap(result.amount) >
          get(before.transactions, result.token).pre_authorization_amount
    /\ calls[1].amount = Some(0)
    /\ calls[1].receipt_no = Some(2)

\* C16: begin_transaction returns ActiveTransaction when the map already
\* holds transactions_max_num entries or already contains the token; in both
\* cases nothing is written to the terminal and the map is unchanged.
C16_ActiveTransaction ==
    /\ result.op = "begin_transaction"
    /\ \/ len(before.transactions) = transactions_max_num
       \/ contains_key(before.transactions, result.token)
    => /\ ~result.ok
       /\ result.err = "ActiveTransaction"
       /\ calls = << >>
       /\ transactions = before.transactions

\* begin_transaction was turned down for a token that has a transaction,
\* with room left in the map.
C16_Witness ==
    /\ result.op = "begin_transaction"
    /\ result.err = "ActiveTransaction"
    /\ contains_key(before.transactions, result.token)
    /\ len(before.transactions) < transactions_max_num
    /\ calls = << >>

\* C17: when the terminal's terminal_id differs from the configured one and
\* the SetTerminalId dialog and the Diagnosis dialog that follows it both end
\* with CompletionData, configure goes on to initialize (which runs the
\* Initialization dialog unless the configured terminal id is 0) and, when
\* that completes, returns Ok and marks the controller configured.
C17_ConfigureAfterDiagnosis ==
    /\ result.op \in {"configure", "reconnect"}
    /\ Len(seen) >= 2
    /\ seen[1].dialog = "SetTerminalId" /\ Completed(1)
    /\ seen[2].dialog = "Diagnosis" /\ Completed(2)
    => IF parse_usize(terminal_id).val = 0
       THEN result.ok /\ successfully_configured
       ELSE /\ Len(seen) = 3
            /\ seen[3].dialog = "Initialization"
            /\ Completed(3) => result.ok /\ successfully_configured

\* The terminal id was set, the Diagnosis dialog ended with CompletionData,
\* and configure failed without sending the Initialization request.
C17_Witness ==
    /\ result.op = "configure"
    /\ Len(seen) = 2
    /\ seen[1].dialog = "SetTerminalId" /\ Completed(1)
    /\ seen[2].dialog = "Diagnosis" /\ Completed(2)
    /\ ~result.ok
    /\ ~successfully_configured
    /\ \A i \in DOMAIN calls : calls[i].dialog # "Initialization"

\* C18: once configure has returned Ok the controller is marked configured,
\* and a configure call that finds it so returns Ok without writing anything
\* to the terminal; only configure and reconnect change the mark, and
\* reconnect clears it and runs the full flow.  After a failed configure the
\* mark is false, and a configure call that finds it false runs the full
\* flow, which starts with the GetSystemInfo request.
C18_ConfigureIdempotent ==
    /\ result.op \notin {"configure", "reconnect"}
         => successfully_configured = before.successfully_configured
    /\ result.op \in {"configure", "reconnect"}
         => successfully_configured = result.ok
    /\ result.op = "configure" /\ before.successfully_configured
         => result.ok /\ calls = << >>
    /\ (result.op = "configure" /\ ~before.successfully_configured)
         => calls # << >> /\ calls[1].dialog = "GetSystemInfo"
    /\ result.op = "reconnect"
         => calls # << >> /\ calls[1].dialog = "GetSystemInfo"

\* A configure call found the controller configured and returned Ok without
\* a request.
C18_Witness ==
    /\ result.op = "configure"
    /\ before.successfully_configured
    /\ result.ok
    /\ calls = << >>
    /\ successfully_configured

\* C19: read_card runs end_of_day, before it issues ReadCard, if and only if
\* the transaction map is empty and end_of_day_max_interval has elapsed since
\* the last end-of-day was started; an end_of_day that got past the
\* terminal-id check restarts the interval.
C19_EndOfDayBeforeReadCard ==
    /\ result.op = "read_card"
         => /\ eod # None <=> (before.transactions = {} /\ before.eod_due)
            /\ \A i \in DOMAIN calls :
                  calls[i].dialog = "ReadCard" => i = Len(calls)
            /\ eod # None
                  => \A i \in 1..Len(unwrap(eod).calls) :
                        calls[i] = unwrap(eod).calls[i]
    /\ eod # None /\ unwrap(eod).ran => ~eod_due

\* read_card found the map empty and the interval elapsed, ran an end-of-day
\* with its EndOfDay dialog and then sent the ReadCard request.
C19_Witness ==
    /\ result.op = "read_card"
    /\ before.transactions = {}
    /\ before.eod_due
    /\ eod # None
    /\ unwrap(eod).ok
    /\ Len(calls) > 2
    /\ calls[Len(calls) - 1].dialog = "EndOfDay"
    /\ calls[Len(calls)].dialog = "ReadCard"

\* C20: the controller's end_of_day returns Ok when the EndOfDay dialog ends
\* with CompletionData and when it ends with an Abort whose error code is
\* 0xA0 (ReceiverNotReady); for an Abort with any other code c it returns
\* Aborted(c).
C20_EndOfDayToleratesReceiverNotReady ==
    eod # None /\ unwrap(eod).last # None
        => LET e == unwrap(eod)
               last == unwrap(e.last)
           IN  /\ last = Event("CompletionData", None) => e.ok
               /\ last = Event("Abort", Some(ReceiverNotReady)) => e.ok
               /\ last.val = "Abort" /\ last.data # Some(ReceiverNotReady)
                     => /\ ~e.ok
                        /\ e.err = "Aborted"
                        /\ e.code = last.data

\* The EndOfDay dialog of a read_card ended with Abort(0xA0); end_of_day
\* returned Ok and read_card went on to send ReadCard.
C20_Witness ==
    /\ result.op = "read_card"
    /\ eod # None
    /\ unwrap(eod).last = Some(Event("Abort", Some(ReceiverNotReady)))
    /\ unwrap(eod).ok
    /\ calls[Len(calls)].dialog = "ReadCard"

-----------------------------------------------------------------------------
(* Properties of response parsing                                          *)

\* The response frames read so far that Self::Output::zvt_parse rejects.
Unparsable(w) ==
    { i \in ResponseReads(w) : zvt_parse(Output(dialog), w[i].frame).kind = "err" }

\* C25: a received frame that does not parse into the dialog's response type
\* (unknown class/instr or malformed body) makes the stream yield that error
\* as its final item and terminate: the frame is the last operation on the
\* transport and the error is the last event.
C25_ParseErrorIsFinal ==
    \A i \in Unparsable(wire) :
        /\ i = Len(wire)
        /\ events # << >>
        /\ events[Len(events)] =
               [kind |-> "err",
                val |-> zvt_parse(Output(dialog), wire[i].frame).val,
                at |-> i]
        /\ pc = "Done"
        /\ item \in {zvt_parse(Output(dialog), wire[i].frame), Pending, End}

\* A stream yielded an event, then read a frame with a malformed body,
\* yielded IncompleteData and returned None.
C25_Witness ==
    /\ Unparsable(wire) # {}
    /\ Len(events) >= 2
    /\ events[1].kind = "ok"
    /\ events[Len(events)].val = "IncompleteData"
    /\ item = End

\* A frame of unknown class and instruction ended the stream with WrongTag.
C25_WitnessWrongTag ==
    /\ Unparsable(wire) # {}
    /\ events[Len(events)].val = "WrongTag"
    /\ item = End

-----------------------------------------------------------------------------
(* Properties of connect                                                   *)

\* C26: every transport connect stores in inner passed the device check: the
\* Registration stream ended without error and the device_id of GetSystemInfo
\* equals feig_serial ignoring case. On a mismatch (NotConnected) or an Abort
\* (Aborted) connect fails, inner stays none and the caller's sequence is not
\* started.
C26_StoredTransportPassedDeviceCheck ==
    /\ \A a \in DOMAIN hist :
          /\ hist[a].connect = "ok" =>
                /\ hist[a].registered
                /\ hist[a].device = to_lowercase(FeigSerial)
          /\ hist[a].device \notin {<< >>, to_lowercase(FeigSerial)} =>
                /\ hist[a].connect = "err"
                /\ ~hist[a].started
          /\ hist[a].started => hist[a].had_inner \/ hist[a].connect = "ok"
    /\ witem \in {Err("NotConnected"), Err("Aborted")} =>
          /\ inner = "none"
          /\ pc = "Dropped"
          /\ hist[ThisAttempt].connect = "err"
          /\ hist[ThisAttempt].registered
          /\ ~hist[ThisAttempt].started
    /\ inner = "some" /\ hist # << >> =>
          hist[ThisAttempt].had_inner \/ hist[ThisAttempt].connect = "ok"

\* The first connect met another device and failed with NotConnected; the
\* second met the configured device and its transport is stored.
C26_Witness ==
    /\ Len(hist) = 2
    /\ hist[1].device = <<98, 49>>
    /\ hist[1].connect = "err"
    /\ hist[2].connect = "ok"
    /\ hist[2].started
    /\ inner = "some"
    /\ out # << >>

\* GetSystemInfo answered Abort: connect failed with Aborted.
C26_WitnessAborted ==
    /\ witem = Err("Aborted")
    /\ hist[ThisAttempt].registered

-----------------------------------------------------------------------------
(* Properties of the transport's use                                       *)

\* A step that creates a stream on the transport (into_stream).
StreamStarted == pc' = "Created" /\ pc # "Created"

\* The stream that held the transport has returned None or was dropped.
StreamOver == ~polled /\ pc \in {"Done", "Dropped"}

\* connect's drop(stream) on the GetSystemInfo stream, whose single item it
\* has taken, before the transport is handed over.
DroppedByConnect ==
    /\ ~polled
    /\ rpc = "GetSystemInfo"
    /\ dialog = "GetSystemInfo"
    /\ pc = "Break"
    /\ item.kind = "ok"
    /\ rpc' = "Await"

-----------------------------------------------------------------------------
(* Properties of read_packet                                               *)

\* The bytes of the packet at the head of a source: 3 + len when the length
\* byte is below 0xff, 5 + len with len in the two following bytes, low byte
\* first, when it is 0xff; more than the source holds when the header is cut.
PacketBytes(source) ==
    IF Len(source) < 3 THEN Len(source) + 1
    ELSE IF source[3] < 255 THEN 3 + source[3]
    ELSE IF Len(source) < 5 THEN Len(source) + 1
    ELSE 5 + source[4] + 256 * source[5]

\* C27: read_packet consumes exactly 3+len bytes when the length byte is
\* below 0xff and 5+len bytes when it is 0xff (len the two following bytes,
\* little-endian), returns header and payload concatenated, and fails when
\* the source ends before that many bytes are available.
C27_ReadPacketConsumesOneFrame ==
    \A i \in DOMAIN ret :
        LET r == ret[i]
            k == PacketBytes(r.source)
        IN  /\ r.ok <=> Len(r.source) >= k
            /\ r.ok =>
                  /\ r.buf = SubSeq(r.source, 1, k)
                  /\ r.rest = From(r.source, k + 1)
                  /\ Len(r.source) - Len(r.rest) = k
            /\ i < Len(ret) => r.ok /\ ret[i + 1].source = r.rest
            /\ i = Len(ret) => arg = r.rest

\* A packet with the extended length 2 was read whole, and the next call
\* failed on what was left.
C27_Witness ==
    /\ Len(ret) = 2
    /\ ret[1].ok
    /\ ret[1].source[3] = 255
    /\ Len(ret[1].buf) = 7
    /\ ~ret[2].ok

\* A packet with a one-byte length was read and bytes remain in the source.
C27_WitnessShort ==
    /\ Len(ret) = 1
    /\ ret[1].ok
    /\ Len(ret[1].buf) = 5
    /\ arg # << >>

-----------------------------------------------------------------------------
(* Properties of the length codecs                                         *)

\* The lengths a codec's serialize accepts and represents.
Accepted(L, n) ==
    CASE L.name = "Empty" -> TRUE
      [] L.name = "Fixed" -> n <= L.N
      [] L.name = "Tlv" -> n <= U16_MAX
      [] L = Llv -> n <= 99
      [] L = Lllv -> n <= 999
      [] OTHER -> n <= U16_MAX

\* serialize and then deserialize have been applied to arg.n.
RoundTripDone == arg.op = "serialize" /\ Len(ret) = 2

C28_WitnessFixed ==
    /\ RoundTripDone
    /\ arg.L = Fixed(3)
    /\ arg.n = 1
    /\ arg.bytes = Payload(1)
    /\ ret[2] = LengthOk(3, <<0, 0, 7>>)

\* The form of the Tlv length: one byte up to 127, 0x81 and one byte up to
\* 255, 0x82 and two bytes, high byte first, up to 65535.
TlvForm(n) ==
    IF n <= 127 THEN <<n>>
    ELSE IF n <= 255 THEN <<129, n>>
    ELSE <<130, n \div 256, n % 256>>

\* C29: the Tlv length codec round-trips every n in 0..=65535, in the
\* one-byte form for n <= 127, as 0x81 plus one byte for 128..=255 and as 0x82
\* plus two big-endian bytes for 256..=65535; serialize(65536) panics; a
\* leading byte 0x80 or 0x83..=0xFE on deserialize returns NonImplemented.
C29_TlvLength ==
    /\ arg.L = Tlv /\ arg.op = "serialize" /\ Len(ret) >= 1 =>
          /\ arg.n <= 65535 => ret[1] = LengthOk(arg.n, TlvForm(arg.n))
          /\ arg.n >= 65536 => ret[1] = LengthErr("panic")
          /\ Len(ret) = 2 => ret[2] = LengthOk(arg.n, << >>)
    /\ (/\ arg.L = Tlv
        /\ arg.op = "deserialize"
        /\ Len(ret) = 1
        /\ arg.bytes # << >>
        /\ arg.bytes[1] \in {128} \cup 131..254)
           => ret[1] = LengthErr("NonImplemented")

\* 256 was written as 0x82 0x01 0x00 and read back.
C29_Witness ==
    /\ arg.L = Tlv
    /\ RoundTripDone
    /\ arg.n = 256
    /\ ret[1].bytes = <<130, 1, 0>>
    /\ ret[2].len = 256

\* serialize(65536) has panicked.
C29_WitnessPanic ==
    /\ arg.L = Tlv
    /\ arg.n = 65536
    /\ Len(ret) = 1
    /\ ret[1].err = "panic"

\* A length with the leading byte 0x83 was refused.
C29_WitnessNonImplemented ==
    /\ arg.L = Tlv
    /\ arg.op = "deserialize"
    /\ arg.bytes = <<131, 1, 0>>
    /\ Len(ret) = 1
    /\ ret[1].err = "NonImplemented"

-----------------------------------------------------------------------------
(* Properties of the derived decode                                        *)

\* The first k elements of the input are fields of the struct that decode,
\* and no tag recurs among them except a repeated one in consecutive
\* elements.
CleanPrefix(k) ==
    \A i \in 1..k :
        /\ arg[i].tag \in StructTags
        /\ arg[i].ok
        /\ \A h \in 1..(i - 1) :
              arg[h].tag = arg[i].tag =>
                  /\ arg[i].tag \in RepeatedTags
                  /\ \A m \in h..i : arg[m].tag = arg[i].tag

\* C30: an input that contains the same non-repeated tag twice decodes to
\* DuplicateTag(t), t being that tag, whatever the order of the other tagged
\* fields before the second occurrence and whether or not the required tags
\* are present.
C30_DuplicateTag ==
    ret # << >> =>
        \A j \in DOMAIN arg :
            (/\ arg[j].tag \in StructTags \ RepeatedTags
             /\ \E i \in 1..(j - 1) : arg[i].tag = arg[j].tag
             /\ CleanPrefix(j - 1))
                => ret[1] = DecodeErr("DuplicateTag", <<arg[j].tag>>)

\* The optional tag 3 came twice with the required tag 1 and the optional
\* tag 2 in between: DuplicateTag(3), whatever the required tags seen.
C30_Witness ==
    /\ Len(arg) = 4
    /\ arg[1].tag = 3
    /\ arg[2].tag = 1
    /\ arg[3].tag = 2
    /\ arg[4].tag = 3
    /\ CleanPrefix(3)
    /\ ret = <<DecodeErr("DuplicateTag", <<3>>)>>

-----------------------------------------------------------------------------
(* Properties of the firmware transfer                                     *)

\* The events that are a RequestForData.
Requests == { n \in OkEvents : events[n].val = "RequestForData" }

\* C21 as stated: each RequestForData is yielded before the WriteData that
\* answers it is written: at the yield the last operation on the transport
\* is the read of the request.
C21_YieldBeforeWriteData ==
    \A n \in Requests : events[n].at = NthRead(wire, n)

\* C21, amended: the WriteData that answers a RequestForData is written
\* first, carrying the request's file_id and file_offset, and the request is
\* yielded after it; nothing is read or written in between.
C21_WriteDataBeforeYield ==
    \A n \in Requests :
        /\ events[n].at = NthRead(wire, n) + 1
        /\ wire[events[n].at] =
               Written(WriteDataPacket(wire[NthRead(wire, n)].frame.file_id,
                                       wire[NthRead(wire, n)].frame.file_offset))

\* Two requests were answered and yielded, the second for file 32.
C21_Witness ==
    /\ Len(events) >= 2
    /\ Requests = {1, 2}
    /\ wire[events[2].at].op = "write"
    /\ wire[events[2].at].frame.file_id = Some(32)

\* The request frames that lack a field or name a file that was not
\* announced.
Unanswerable(f) ==
    /\ f \in RequestsForData
    /\ \/ ~f.tlv
       \/ ~f.file
       \/ f.file_id = None
       \/ f.file_offset = None
       \/ \A id \in f.file_id : id \notin found(arg.dir)

\* C22: a RequestForData that lacks tlv, file, file_id or file_offset, or
\* names a file_id that was not announced, makes the stream yield
\* IncompleteData and terminate; no WriteData is sent for it.
C22_IncompleteRequest ==
    \A i \in ResponseReads(wire) :
        Unanswerable(wire[i].frame) =>
            /\ i = Len(wire)
            /\ events # << >>
            /\ events[Len(events)] =
                   [kind |-> "err", val |-> "IncompleteData", at |-> i]
            /\ pc = "Done"
            /\ item \in {Err("IncompleteData"), Pending, End}

\* A request was answered, the next one named the file 48 that was not
\* announced, and the stream ended on IncompleteData.
C22_Witness ==
    /\ Len(events) = 2
    /\ Requests = {1}
    /\ wire[Len(wire)] = Read(RequestForDataFrame(TRUE, TRUE, Some(48), Some(0)))
    /\ events[2].val = "IncompleteData"
    /\ item = End

\* A request without file_offset ended the stream.
C22_WitnessNoOffset ==
    /\ wire # << >>
    /\ wire[Len(wire)] = Read(RequestForDataFrame(TRUE, TRUE, Some(16), None))
    /\ arg.dir = Paths
    /\ item = End

\* C23: when the directory holds none of the recognized paths the stream
\* ends locally with InvalidData as its only item and writes nothing to the
\* transport.
C23_EmptyDirectory ==
    (\A p \in arg.dir : valid_paths(p) = None) =>
        /\ wire = << >>
        /\ IF events = << >>
           THEN pc = "Created" /\ item \in {NoItem, Pending}
           ELSE /\ events = <<[kind |-> "err", val |-> "InvalidData", at |-> 0]>>
                /\ pc = "Done"
                /\ item \in {Err("InvalidData"), Pending, End}

\* A directory with one file that is no valid path: InvalidData, then None.
C23_Witness ==
    /\ arg.dir = {"readme.txt"}
    /\ Len(events) = 1
    /\ events[1].val = "InvalidData"
    /\ wire = << >>
    /\ item = End

\* The number of leading elements of the input that carry a tag of the
\* struct: decode reads no further.
Decodable ==
    CHOOSE k \in 0..Len(arg) :
        /\ \A i \in 1..k : arg[i].tag \in StructTags
        /\ k < Len(arg) => arg[k + 1].tag \notin StructTags

\* The required tags that the fields decode reads do not carry.
Missing == RequiredTags \ { arg[i].tag : i \in 1..Decodable }

\* C31: an input whose tagged fields decode and that lacks one or more
\* required tags decodes to MissingRequiredTags(vec), vec holding exactly the
\* missing required tags in ascending order; so do the empty input and an
\* input that carries only optional tags.
C31_MissingRequiredTags ==
    (ret # << >> /\ CleanPrefix(Decodable) /\ Missing # {}) =>
        /\ ~ret[1].ok
        /\ ret[1].err = "MissingRequiredTags"
        /\ { ret[1].tags[i] : i \in DOMAIN ret[1].tags } = Missing
        /\ Len(ret[1].tags) = Cardinality(Missing)
        /\ \A i, j \in DOMAIN ret[1].tags : i < j => ret[1].tags[i] < ret[1].tags[j]

\* Only the optional tags 3 and 2 came: both required tags are reported,
\* the smaller first.
C31_Witness ==
    /\ Len(arg) = 2
    /\ arg[1] = [tag |-> 3, ok |-> TRUE]
    /\ arg[2] = [tag |-> 2, ok |-> TRUE]
    /\ ret = <<DecodeErr("MissingRequiredTags", <<1, 5>>)>>

\* The empty input: both required tags are reported.
C31_WitnessEmpty ==
    /\ arg = << >>
    /\ ret = <<DecodeErr("MissingRequiredTags", <<1, 5>>)>>

\* One of the two required tags came: the other alone is reported.
C31_WitnessOne ==
    /\ Len(arg) = 1
    /\ arg[1] = [tag |-> 5, ok |-> TRUE]
    /\ ret = <<DecodeErr("MissingRequiredTags", <<1>>)>>

\* The input of Tlv::deserialize ends before its length field is complete:
\* it is empty, a lone 0x81, or 0x82 followed by fewer than two bytes.
TlvLengthCutShort ==
    /\ arg.op = "deserialize"
    /\ arg.L = Tlv
    /\ \/ arg.bytes = << >>
       \/ arg.bytes = <<129>>
       \/ arg.bytes # << >> /\ arg.bytes[1] = 130 /\ Len(arg.bytes) < 3

\* C35: Tlv::deserialize returns the error IncompleteData, and does not
\* panic, for every input that ends before its length field is complete.
C35_IncompleteLength ==
    (TlvLengthCutShort /\ ret # << >>) =>
        /\ ~ret[1].ok
        /\ ret[1].err = "IncompleteData"

\* Tlv::deserialize was given 0x82 and one more byte, and has panicked in
\* data[1..3].
C35_Witness ==
    /\ TlvLengthCutShort
    /\ arg.bytes = <<130, 1>>
    /\ ret = <<LengthErr("panic")>>

\* A lone 0x81 and the empty input give IncompleteData.
C35_WitnessIncomplete ==
    /\ TlvLengthCutShort
    /\ arg.bytes = <<129>>
    /\ ret = <<LengthErr("IncompleteData")>>

-----------------------------------------------------------------------------
(* Properties of a repeated field                                          *)

\* The loop attempts an element only after the one before has succeeded and
\* the input has become shorter, so that it makes no more attempts than the
\* input has bytes, and one more.
VecShrinks ==
    /\ \A i \in DOMAIN ret :
          i > 1 => ret[i - 1].ok /\ ret[i - 1].after < ret[i - 1].before
    /\ ret # << >> => Len(ret) <= ret[1].before + 1

\* C32: decoding a repeated field attempts another element only as long as
\* the previous element's deserialization succeeded and the remaining input
\* shrank, so it ends on every input; a failing element (a tag mismatch
\* included) ends the vector without error and leaves that element's bytes
\* unconsumed.
C32_VecDecodesGreedily ==
    /\ VecShrinks
    /\ \A i \in DOMAIN ret :
          ~ret[i].ok => ret[i].vec = "Ok" /\ ret[i].after = ret[i].before

\* An element was decoded and the next one is cut short behind the leading
\* byte 0x82 of its length: the decode of the vector has panicked.
C32_Witness ==
    /\ Len(ret) = 2
    /\ ret[1].ok
    /\ ret[1].before = 4
    /\ ~ret[2].ok
    /\ arg = <<VecTag, 130>>
    /\ ret[2].vec = "panic"

\* Two elements were decoded and the third has another tag: the vector ends
\* without error in front of that tag.
C32_WitnessWrongTag ==
    /\ Len(ret) = 3
    /\ ret[1].ok
    /\ ret[2].ok
    /\ ret[3] = [ok |-> FALSE, before |-> 2, after |-> 2, vec |-> "Ok"]
    /\ arg = <<2, 0>>

\* Apart from the panic the vector decodes as stated.
VecGreedyUnlessPanic ==
    /\ VecShrinks
    /\ \A i \in DOMAIN ret :
          (~ret[i].ok /\ ret[i].vec # "panic") =>
              ret[i].vec = "Ok" /\ ret[i].after = ret[i].before

-----------------------------------------------------------------------------
(* Properties of the wrapper's return                                      *)

\* The wrapped sequence of the running attempt has ended, and the attempt
\* has yielded no error.
SequenceEnded ==
    /\ rpc = "Await"
    /\ ~polled
    /\ item.kind = "end"
    /\ \A i \in DOMAIN out :
          out[i].attempt = ThisAttempt => out[i].kind # "err"

\* C33: when an attempt's wrapped sequence ends without having yielded an
\* error, the wrapper ends its output stream at once, uses no further retry
\* tick, does not call connect again and leaves the inner transport in place
\* for the next sequence.
C33_ReturnsWhenSequenceEnds ==
    [][/\ SequenceEnded =>
             /\ rpc' = "Done"
             /\ witem' = End
             /\ inner = "some"
             /\ UNCHANGED <<inner, retry, hist, out>>
       /\ rpc = "Done" => UNCHANGED <<rpc, inner, retry, hist, out>>]_vars

\* The first attempt ran on a new connection, yielded an item and ended:
\* the output stream has ended with a tick left and the transport kept.
C33_Witness ==
    /\ rpc = "Done"
    /\ witem = End
    /\ Len(hist) = 1
    /\ hist[1].connect = "ok"
    /\ hist[1].started
    /\ ~hist[1].timed_out
    /\ out # << >>
    /\ \A i \in DOMAIN out : out[i].kind = "ok"
    /\ retry > 0
    /\ inner = "some"

-----------------------------------------------------------------------------
(* Properties of the unset terminal id                                     *)

\* config.terminal_id is the unset sentinel: it parses to 0.
TerminalIdUnset ==
    /\ parse_usize(terminal_id).ok
    /\ parse_usize(terminal_id).val = 0

\* C34: with the terminal_id unset (it parses to 0, which is also what an
\* empty terminal_id is replaced with), end_of_day and initialize return Ok
\* without writing anything to the terminal, and end_of_day changes neither
\* the transaction map nor the instant of the last end-of-day.
C34_UnsetTerminalId ==
    /\ terminal_id # << >>
    /\ parse_usize(TcpStream_new(<< >>)) = [ok |-> TRUE, val |-> 0]
    /\ TerminalIdUnset =>
          /\ eod # None =>
                /\ unwrap(eod).ok
                /\ unwrap(eod).calls = << >>
                /\ ~unwrap(eod).ran
                /\ eod_due = before.eod_due
                /\ result.op \in {"update_firmware", "read_card"} =>
                       transactions = before.transactions
          /\ \A i \in DOMAIN calls :
                calls[i].dialog \notin {"Initialization", "EndOfDay"}
          /\ \A i \in DOMAIN seen : seen[i].dialog # "Initialization"
          /\ (/\ result.op \in {"configure", "reconnect"}
              /\ calls = << Request("GetSystemInfo", "", None, None) >>
              /\ successfully_configured) => result.ok

\* update_firmware called end_of_day with two transactions in the map and
\* the interval elapsed: end_of_day returned Ok and both are as they were.
C34_Witness ==
    /\ TerminalIdUnset
    /\ result.op = "update_firmware"
    /\ eod # None
    /\ unwrap(eod).ok
    /\ unwrap(eod).calls = << >>
    /\ Cardinality(transactions) = 2
    /\ transactions = before.transactions
    /\ eod_due
    /\ before.eod_due

\* configure, not yet configured, read the system information and called
\* initialize, which returned Ok with no Initialization request sent.
C34_WitnessInitialize ==
    /\ TerminalIdUnset
    /\ result.op = "configure"
    /\ result.ok
    /\ ~before.successfully_configured
    /\ successfully_configured
    /\ calls = << Request("GetSystemInfo", "", None, None) >>
    /\ seen = << >>

-----------------------------------------------------------------------------
(* Properties of the transport a function leaves behind                    *)

\* The function has returned and the socket still holds its transport.
TransportKept == ret.returned /\ inner = "some"

\* The dialog has yielded the item it ends with: one its loop breaks on, or
\* the one response of a dialog with the default into_stream.
TerminalFrameConsumed ==
    \/ ret.last \in BreakOn(seq)
    \/ seq \in SingleShot /\ ret.last # ""

\* get_pending has left on a response that is neither the abort it waits
\* for nor the end of the dialog: the stream was dropped between two frames.
UnexpectedPacket ==
    /\ arg.op = "get_pending"
    /\ ret.last \in {"IntermediateStatusInformation", "StatusInformation",
                     "PrintLine", "PrintTextBlock"}
    /\ rpc = "Yielded"
    /\ pc = "ReadPacket"

C36_WitnessUnexpected ==
    /\ TransportKept
    /\ UnexpectedPacket
    /\ ret.last = "IntermediateStatusInformation"
    /\ ~TerminalFrameConsumed

\* commit_transaction has returned after its stream ended by itself.
C36_WitnessEnded ==
    /\ TransportKept
    /\ arg.op = "commit_transaction"
    /\ witem = End
    /\ ret.last = "CompletionData"

-----------------------------------------------------------------------------
(* Properties of the requests a function sends                             *)

\* begin_transaction or commit_transaction is running, or has returned.
PaymentCall == arg.op \in {"begin_transaction", "commit_transaction"}

\* The attempts of the wrapper that started the sequence.
Started == { i \in DOMAIN hist : hist[i].started }

\* C37 as stated: during one begin_transaction or commit_transaction call
\* the Reservation or PartialReversal request is written to the terminal at
\* most once, even when the wrapper retries after an error or a timeout.
C37_RequestWrittenOnce ==
    PaymentCall => ret.requests <= 1

\* C37 amended: the request is written at most once in each attempt of the
\* wrapper, hence at most as often as the retry stream has given a tick.
C37_RequestWrittenOncePerAttempt ==
    PaymentCall =>
        /\ ret.requests <= Cardinality(Started)
        /\ ret.requests <= n_ticks - retry

\* The first attempt of begin_transaction wrote the Reservation request and
\* timed out; the second attempt has written it again.
C37_Witness ==
    /\ arg.op = "begin_transaction"
    /\ ret.requests = 2
    /\ Len(hist) = 2
    /\ hist[1].timed_out
    /\ wire = << Written(Input("Reservation")) >>

\* commit_transaction: the first attempt ended with an error item after an
\* intermediate status, and the request went out a second time.
C37_WitnessError ==
    /\ arg.op = "commit_transaction"
    /\ ret.requests = 2
    /\ Len(out) = 2
    /\ out[1] = [kind |-> "ok", attempt |-> 1]
    /\ out[2] = [kind |-> "err", attempt |-> 1]

-----------------------------------------------------------------------------
(* Properties of the timeout of read_card                                  *)

\* C39: for every configured read_card_timeout in 0..=255, read_card uses a
\* per-response timeout of read_card_timeout + 2 seconds, computed without
\* overflow, wrap-around or panic.
C39_TimeoutIsTwoSecondsMore ==
    ret # << >> => ret[1] = [ok |-> TRUE, val |-> arg + 2]

\* With read_card_timeout = 255 the addition has wrapped: the timeout is
\* one second.
C39_Witness ==
    /\ arg = 255
    /\ ret = << [ok |-> TRUE, val |-> 1] >>

\* With read_card_timeout = 254 the addition has panicked.
C39_WitnessPanic ==
    /\ arg = 254
    /\ ret = << [ok |-> FALSE, val |-> 0] >>

\* Up to 253 seconds the timeout is two seconds longer.
TimeoutBelowOverflow ==
    (ret # << >> /\ arg <= U8_MAX - 2) => ret[1] = [ok |-> TRUE, val |-> arg + 2]

-----------------------------------------------------------------------------
(* Termination of the wrapper                                              *)

\* A read of connect is waiting for the terminal: Registration and
\* GetSystemInfo are polled with stream.next().await, under no timer.
ConnectWaits ==
    /\ rpc \in {"Registration", "GetSystemInfo"}
    /\ polled
    /\ pc \in {"AwaitAck", "ReadPacket"}

\* C38: given a finite retry stream and a per-response timeout, the wrapper's
\* output stream eventually ends, whether the terminal answers, closes the
\* connection or stays silent longer than the timeout; no attempt waits for a
\* single response longer than the timeout.
C38_OutputStreamEnds == <>(rpc = "Done")

\* The wrapper has no connection, its retry stream has given a tick, and
\* connect waits for the acknowledgement of the Registration.
C38_Witness ==
    /\ ConnectWaits
    /\ rpc = "Registration"
    /\ pc = "AwaitAck"
    /\ inner = "none"
    /\ Len(hist) = 1

\* A later attempt reconnects after an error and waits in GetSystemInfo.
C38_WitnessReconnect ==
    /\ ConnectWaits
    /\ rpc = "GetSystemInfo"
    /\ Len(hist) = 2
    /\ out # << >>

\* The output stream ends unless a read of connect waits for ever.
WrapperEndsUnlessConnectWaits == <>(rpc = "Done") \/ <>[]ConnectWaits

====
